---------------------------- MODULE Spec2Model ----------------------------
(***************************************************************************)
(* A model of the pbf crate's buffer engine (src/src/lib.rs): the          *)
(* Protobuf struct (buf, pos), its varint / zigzag / fixed / length-       *)
(* delimited / packed / message read and write primitives, and the         *)
(* read-dispatch (ProtoRead) capability.                                   *)
(*                                                                         *)
(* A u64 (and an i64, which is the same 64 bits) is a tuple of 64 bits,    *)
(* least significant first, so that <<, >>, &, |, ^ and the `as` casts     *)
(* are what the machine does and no value is cut to fit TLC's integers.    *)
(* A byte is an integer 0..255.  A panic is recorded in the field `panic`  *)
(* of the machine record (the empty string: no panic).                     *)
(***************************************************************************)
EXTENDS Integers, Sequences, FiniteSets, TLC

VARIABLES
    phase,       \* "write": a session made by new(); "read": a session made by from_input;
                 \* "input": the bytes of a message are being put together; "fn": a function is applied
    big_endian,  \* cfg!(target_endian = "big") of the build
    buf,         \* Protobuf.buf: the byte sequence
    pos,         \* Protobuf.pos: the cursor
    panic,       \* "" while no call has panicked, else the panic message
    ret,         \* what the last call returned
    out,         \* the receiving value of read_fields: the assignments its dispatch made
    ev,          \* the trace of read_fields: its dispatch invocations and fallback skips
    hist,        \* the write calls made so far (or the fields put in the input), with their arguments
    calls,       \* the read calls made so far on bytes that were written here (hist is not
                 \* empty); on given input bytes, the last read call alone
    nread        \* the number of read calls made so far

vars == <<phase, big_endian, buf, pos, panic, ret, out, ev, hist, calls, nread>>

-----------------------------------------------------------------------------
(* 64-bit words *)

\* u64::BITS
W == 64

Bit == {0, 1}

Pow2(k) == 2 ^ k

\* a word given bit by bit, as the tuple of its bits
Bits(f) == SubSeq(f, 1, W)

\* n as u64, for a natural n below 2^31
U64(n) == Bits([i \in 1..W |-> IF i <= 31 THEN (n \div Pow2(i - 1)) % 2 ELSE 0])

\* 1 << k
U64Bit(k) == Bits([i \in 1..W |-> IF i = k + 1 THEN 1 ELSE 0])

\* (1 << k) - 1: the k low bits set
U64Ones(k) == Bits([i \in 1..W |-> IF i <= k THEN 1 ELSE 0])

\* v << k  (bits shifted out are lost; k < 64)
Shl(v, k) == Bits([i \in 1..W |-> IF i - k >= 1 THEN v[i - k] ELSE 0])

\* v >> k on u64 (logical)
Shr(v, k) == Bits([i \in 1..W |-> IF i + k <= W THEN v[i + k] ELSE 0])

\* v >> k on i64 (arithmetic: the sign bit fills)
Sar(v, k) == Bits([i \in 1..W |-> IF i + k <= W THEN v[i + k] ELSE v[W]])

BitAnd(a, b) == Bits([i \in 1..W |-> IF a[i] = 1 /\ b[i] = 1 THEN 1 ELSE 0])

BitOr(a, b) == Bits([i \in 1..W |-> IF a[i] = 1 \/ b[i] = 1 THEN 1 ELSE 0])

BitXor(a, b) == Bits([i \in 1..W |-> IF a[i] # b[i] THEN 1 ELSE 0])

BitNot(a) == Bits([i \in 1..W |-> 1 - a[i]])

\* a + b, wrapping: bit i of the sum is a[i] + b[i] + the carry into i, and a carry comes
\* into i from a lower bit j where both are set when every bit between has one set
WrappingAdd(a, b) ==
    LET Carry(i) ==
            \E j \in 1..(i - 1) :
                /\ a[j] = 1 /\ b[j] = 1
                /\ \A k \in (j + 1)..(i - 1) : a[k] = 1 \/ b[k] = 1
    IN  Bits([i \in 1..W |-> (a[i] + b[i] + (IF Carry(i) THEN 1 ELSE 0)) % 2])

\* -a on i64 (two's complement): the bits above the lowest set bit are inverted
Neg(a) == Bits([i \in 1..W |-> IF \E j \in 1..(i - 1) : a[j] = 1 THEN 1 - a[i] ELSE a[i]])

\* v as u8
AsU8(v) ==
    v[1] + 2 * v[2] + 4 * v[3] + 8 * v[4] + 16 * v[5] + 32 * v[6] + 64 * v[7] + 128 * v[8]

\* a > b on u64: a has the highest of the bits in which they differ
Gt(a, b) ==
    LET D == {i \in 1..W : a[i] # b[i]}
    IN  D # {} /\ a[CHOOSE i \in D : \A j \in D : j <= i] = 1

\* TLC's integers are 32 bits wide: a u64 used as a usize is kept exact
\* below 2^30 and is Huge (more than any buffer of the model holds) from there on.
Huge == Pow2(30)

\* v as usize
AsUsize(v) ==
    IF \E i \in 31..W : v[i] = 1 THEN Huge
    ELSE AsU8(v) + 256 * AsU8(Shr(v, 8)) + 65536 * AsU8(Shr(v, 16)) + 16777216 * AsU8(Shr(v, 24))

-----------------------------------------------------------------------------
(* Constants and the wire type *)

\* const MAX_VARINT_LENGTH: usize = u64::BITS as usize * 8 / 7 + 1
MAX_VARINT_LENGTH == (W * 8) \div 7 + 1

\* const BIT_SHIFT: [u64; 10]
BIT_SHIFT == <<0, 7, 14, 21, 28, 35, 42, 49, 56, 63>>

\* enum Type
Type == {"Varint", "Fixed64", "Bytes", "Fixed32", "None"}

\* impl From<Type> for u64, as the number
TypeCode(t) ==
    CASE t = "Varint" -> 0
      [] t = "Fixed64" -> 1
      [] t = "Bytes" -> 2
      [] t = "Fixed32" -> 5
      [] t = "None" -> 7

\* a conversion whose wildcard arm yields Type::None where the source's panics
TypeFromU8Lenient(val) ==
    LET c == val % 8
    IN  CASE c = 0 -> "Varint"
          [] c = 1 -> "Fixed64"
          [] c = 2 -> "Bytes"
          [] c = 5 -> "Fixed32"
          [] OTHER -> "None"

\* impl From<u8> for Type: the match on val & 0x7; "panic" stands for the arm that panics
TypeFromU8(val) ==
    LET c == val % 8
    IN  CASE c = 0 -> "Varint"
          [] c = 1 -> "Fixed64"
          [] c = 2 -> "Bytes"
          [] c = 5 -> "Fixed32"
          [] c = 7 -> "None"
          [] OTHER -> "panic"

-----------------------------------------------------------------------------
(* The machine: a Protobuf value (buf, pos), the panic flag, the value the   *)
(* last call returned (val), the receiving value of a read-dispatch (out:   *)
(* the assignments made to it, in order), the trace of read_fields (ev),    *)
(* and the build: whether it is for a big-endian target (be), the bytes of  *)
(* a usize on the target (pw) and whether integer overflow is checked (oc,  *)
(* as in the dev profile) or wraps (as in the release profile).  A usize    *)
(* has 8 bytes and overflow is checked unless a specification chooses.      *)

Machine(b, p, be) ==
    [buf |-> b, pos |-> p, panic |-> "", val |-> <<>>, out |-> <<>>, ev |-> <<>>, be |-> be,
     pw |-> 8, oc |-> TRUE]

\* Protobuf::new
new(be) == Machine(<<>>, 0, be)

\* Protobuf::from_input
from_input(b, be) == Machine(b, 0, be)

\* Protobuf::set_pos
set_pos(m, p) == [m EXCEPT !.pos = p]

Panic(m, msg) == [m EXCEPT !.panic = msg]

Ok(m) == m.panic = ""

Return(m, v) == [m EXCEPT !.val = v]

-----------------------------------------------------------------------------
(* BitCast (src/src/bit_cast.rs).  A value of a primitive type is its bit   *)
(* pattern: the size_of::<T>() * 8 low bits of a word, zero above.          *)

Prim == {"u8", "i8", "u16", "i16", "u32", "i32", "f32", "u64", "i64", "f64", "bool"}

\* core::mem::size_of::<T>()
size_of(T) ==
    CASE T \in {"u8", "i8", "bool"} -> 1
      [] T \in {"u16", "i16"} -> 2
      [] T \in {"u32", "i32", "f32"} -> 4
      [] T \in {"u64", "i64", "f64"} -> 8

\* the `as` cast of a word to an unsigned type of n bits
Trunc(v, n) == Bits([i \in 1..W |-> IF i <= n THEN v[i] ELSE 0])

\* `v as usize` on the machine's target: the low 32 bits where a usize has 4 bytes
as_usize(m, v) == IF m.pw = 4 THEN AsUsize(Trunc(v, 32)) ELSE AsUsize(v)

\* `v as usize + self.pos` on the machine's target and build: a sum that does not fit a
\* usize aborts where overflow is checked and wraps where it is not
usize_sum(m, v) ==
    LET bits == 8 * m.pw
        Carried(x, sum) == IF bits = W THEN Gt(x, sum) ELSE sum[bits + 1] = 1
        Sum(x, sum) ==
            IF ~Carried(x, sum) THEN Return(m, m.pos + AsUsize(x))
            ELSE IF m.oc THEN Panic(m, "attempt to add with overflow")
            ELSE Return(m, AsUsize(Trunc(sum, bits)))
        Large(x) == Sum(x, WrappingAdd(U64(m.pos), x))
    IN  IF as_usize(m, v) < Huge THEN Return(m, m.pos + as_usize(m, v))
        ELSE Large(Trunc(v, bits))

\* the `as` cast of a signed value of n bits to i64
SignExtend(v, n) == Bits([i \in 1..W |-> IF i <= n THEN v[i] ELSE v[n]])

\* BitCast::to_u64
to_u64(T, x) ==
    IF T = "bool" THEN (IF x = U64(0) THEN U64(0) ELSE U64(1))
    ELSE Trunc(x, 8 * size_of(T))

\* BitCast::from_u64
from_u64(T, value) ==
    IF T = "bool" THEN (IF value # U64(0) THEN U64(1) ELSE U64(0))
    ELSE Trunc(value, 8 * size_of(T))

\* the types of impl_bitcast! and the impls beside it
CorePrim == Prim \cup {"usize", "isize"}

\* core::mem::size_of::<T>() on a target whose pointers are pw bytes wide
size_of_core(T, pw) == IF T \in {"usize", "isize"} THEN pw ELSE size_of(T)

\* impl_bitcast!'s to_u64, `*self as u64`: a signed value is sign-extended, an unsigned
\* one zero-extended; to_bits for the floats; 1 or 0 for bool
to_u64_core(T, x, pw) ==
    CASE T = "bool" -> (IF x = U64(0) THEN U64(0) ELSE U64(1))
      [] T \in {"i8", "i16", "i32", "i64", "isize"} -> SignExtend(x, 8 * size_of_core(T, pw))
      [] OTHER -> Trunc(x, 8 * size_of_core(T, pw))

\* a from_u64 that keeps all 64 bits of the word
from_u64_core_wide(T, value, pw) ==
    IF T = "bool" THEN (IF value # U64(0) THEN U64(1) ELSE U64(0))
    ELSE value

\* impl_bitcast!'s from_u64, `value as $t`; from_bits for the floats; value != 0 for bool
from_u64_core(T, value, pw) ==
    IF T = "bool" THEN (IF value # U64(0) THEN U64(1) ELSE U64(0))
    ELSE Trunc(value, 8 * size_of_core(T, pw))

\* Into<i64> for i8, i16, i32, i64
into_i64(T, x) == SignExtend(x, 8 * size_of(T))

\* TryFrom<i64> for i8, i16, i32, i64: Err when the value is out of T's range
try_from_i64(T, v) ==
    [ok |-> SignExtend(v, 8 * size_of(T)) = v, v |-> Trunc(v, 8 * size_of(T))]

\* u64::swap_bytes
swap_bytes(v) == Bits([i \in 1..W |-> v[(7 - ((i - 1) \div 8)) * 8 + ((i - 1) % 8) + 1]])

-----------------------------------------------------------------------------
(* Writing *)

\* Protobuf::write_varint_to_buffer
RECURSIVE write_varint_to_buffer(_, _)
write_varint_to_buffer(b, val) ==
    IF Gt(val, U64(128))
    THEN write_varint_to_buffer(Append(b, (AsU8(val) % 128) + 128), Shr(val, 7))
    ELSE Append(b, AsU8(val))

\* a write_varint that starts the buffer afresh
write_varint_afresh(m, val) == [m EXCEPT !.buf = write_varint_to_buffer(<<>>, val)]

\* Protobuf::write_varint
RECURSIVE write_varint(_, _)
write_varint(m, val) ==
    IF Gt(val, U64(128))
    THEN write_varint([m EXCEPT !.buf = Append(@, (AsU8(val) % 128) + 128)], Shr(val, 7))
    ELSE [m EXCEPT !.buf = Append(@, AsU8(val))]

\* a zigzag whose right shift is the logical one of u64, not the arithmetic one of i64
zigzag_logical(val) == BitXor(Shl(val, 1), Shr(val, 63))

\* zigzag: ((val << 1) ^ (val >> 63)) as u64
zigzag(val) == BitXor(Shl(val, 1), Sar(val, 63))

\* zagzig: (val >> 1) as i64 ^ -((val & 1) as i64)
zagzig(val) == BitXor(Shr(val, 1), Neg(BitAnd(val, U64(1))))

\* Protobuf::write_s_varint
write_s_varint(m, val) == write_varint(m, zigzag(val))

\* Protobuf::write_field
write_field(m, tag, type) == write_varint(m, BitOr(Shl(tag, 3), U64(TypeCode(type))))

\* Protobuf::write_length_varint
write_length_varint(m, tag, val) == write_varint(write_field(m, tag, "Bytes"), U64(val))

\* Protobuf::write_bytes_field
write_bytes_field(m, tag, val) ==
    LET m1 == write_length_varint(m, tag, Len(val))
    IN  [m1 EXCEPT !.buf = @ \o val]

\* Protobuf::write_string_field (val: the bytes of a &str)
write_string_field(m, tag, val) ==
    LET m1 == write_length_varint(m, tag, Len(val))
    IN  [m1 EXCEPT !.buf = @ \o val]

\* Protobuf::write_string
write_string(m, val) ==
    LET m1 == write_varint(m, U64(Len(val)))
    IN  [m1 EXCEPT !.buf = @ \o val]


\* Protobuf::write_fixed: the loop pushing byte n of the word
RECURSIVE write_fixed_loop(_, _, _, _)
write_fixed_loop(m, val, n, size) ==
    IF n < size
    THEN write_fixed_loop([m EXCEPT !.buf = Append(@, AsU8(Shr(val, n * 8)))], val, n + 1, size)
    ELSE m

\* Protobuf::write_fixed
write_fixed(m, T, x) ==
    LET val == to_u64(T, x)
    IN  write_fixed_loop(m, IF m.be THEN swap_bytes(val) ELSE val, 0, size_of(T))

\* Protobuf::write_varint_field
write_varint_field(m, tag, T, x) == write_varint(write_field(m, tag, "Varint"), to_u64(T, x))

\* Protobuf::write_s_varint_field
write_s_varint_field(m, tag, T, x) ==
    write_s_varint(write_field(m, tag, "Varint"), into_i64(T, x))

\* the for loop of write_packed_varint: the varint of each element, in order
RECURSIVE packed_bytes(_, _)
packed_bytes(T, xs) ==
    IF xs = <<>> THEN <<>>
    ELSE write_varint_to_buffer(<<>>, to_u64(T, Head(xs))) \o packed_bytes(T, Tail(xs))

\* Protobuf::write_packed_varint
write_packed_varint(m, tag, T, xs) ==
    LET bytes == packed_bytes(T, xs)
        m1 == write_length_varint(m, tag, Len(bytes))
    IN  [m1 EXCEPT !.buf = @ \o bytes]

\* the for loop of write_packed_s_varint: the zigzag varint of each element, in order
RECURSIVE packed_s_bytes(_, _)
packed_s_bytes(T, xs) ==
    IF xs = <<>> THEN <<>>
    ELSE write_varint_to_buffer(<<>>, zigzag(into_i64(T, Head(xs)))) \o packed_s_bytes(T, Tail(xs))

\* Protobuf::write_packed_s_varint
write_packed_s_varint(m, tag, T, xs) ==
    LET bytes == packed_s_bytes(T, xs)
        m1 == write_length_varint(m, tag, Len(bytes))
    IN  [m1 EXCEPT !.buf = @ \o bytes]

\* a write_fixed_field that sends every width other than 8 down the Fixed32 path
write_fixed_field_any_width(m, tag, T, x) ==
    IF size_of(T) = 8 THEN write_fixed(write_field(m, tag, "Fixed64"), T, x)
    ELSE write_fixed(write_field(m, tag, "Fixed32"), T, x)

\* Protobuf::write_fixed_field
write_fixed_field(m, tag, T, x) ==
    CASE size_of(T) = 4 -> write_fixed(write_field(m, tag, "Fixed32"), T, x)
      [] size_of(T) = 8 -> write_fixed(write_field(m, tag, "Fixed64"), T, x)
      [] OTHER -> Panic(m, "Invalid fixed type")

\* a take that returns a copy of the bytes and leaves them in the buffer
take_copy(m) == [m EXCEPT !.val = m.buf]

\* Protobuf::take: the bytes are returned and the buffer is left empty
take(m) == [m EXCEPT !.buf = <<>>, !.val = m.buf]

\* Protobuf::len
len(m) == Len(m.buf)

\* Protobuf::is_empty
is_empty(m) == len(m) = 0

\* ProtoWrite::write of a value given as the list of write calls its implementation
\* makes, and Protobuf::write_message, which calls it on a fresh buffer
RECURSIVE write(_, _), write_message(_, _, _)
write(t, m) ==
    IF t = <<>> \/ ~Ok(m) THEN m
    ELSE LET c == Head(t)
             m1 == CASE c.op = "write_varint_field" -> write_varint_field(m, c.tag, c.ty, c.x)
                     [] c.op = "write_s_varint_field" -> write_s_varint_field(m, c.tag, c.ty, c.x)
                     [] c.op = "write_fixed_field" -> write_fixed_field(m, c.tag, c.ty, c.x)
                     [] c.op = "write_bytes_field" -> write_bytes_field(m, c.tag, c.x)
                     [] c.op = "write_string_field" -> write_string_field(m, c.tag, c.x)
                     [] c.op = "write_packed_varint" -> write_packed_varint(m, c.tag, c.ty, c.x)
                     [] c.op = "write_packed_s_varint" -> write_packed_s_varint(m, c.tag, c.ty, c.x)
                     [] c.op = "write_field" -> write_field(m, c.tag, c.ty)
                     [] c.op = "write_message" -> write_message(m, c.tag, c.x)
         IN  write(Tail(t), m1)

write_message(m, tag, t) ==
    LET Extend(bytes) == [write_length_varint(m, tag, Len(bytes)) EXCEPT !.buf = @ \o bytes]
        Then(pbf) == IF ~Ok(pbf) THEN Panic(m, pbf.panic) ELSE Extend(take(pbf).val)
    IN  Then(write(t, new(m.be)))

-----------------------------------------------------------------------------
(* Reading *)

\* the for loop of decode_varint, at index n with the value accumulated so far
RECURSIVE decode_loop(_, _, _)
decode_loop(m, n, val) ==
    IF n >= Len(BIT_SHIFT) \/ n >= MAX_VARINT_LENGTH THEN Return(m, val)
    ELSE IF m.pos >= Len(m.buf) THEN Panic(m, "index out of bounds")
    ELSE LET b == m.buf[m.pos + 1]
             m1 == [m EXCEPT !.pos = @ + 1]
         IN  IF n = 0
             THEN IF b \div 128 = 0 THEN Return(m1, U64(b))
                  ELSE decode_loop(m1, 1, U64(b % 128))
             ELSE LET v == BitOr(val, Shl(U64(b % 128), BIT_SHIFT[n + 1]))
                  IN  IF b < 128 THEN Return(m1, v) ELSE decode_loop(m1, n + 1, v)

\* Protobuf::decode_varint
decode_varint(m) ==
    IF ~Ok(m) THEN m
    ELSE IF m.pos >= Len(m.buf) THEN Panic(m, "unreachable")
    ELSE decode_loop(m, 0, U64(0))

\* a skip that leaves the payload of a length-delimited field in place
skip_prefix_only(m, t) ==
    IF ~Ok(m) THEN m
    ELSE CASE t = "Varint" -> Return(decode_varint(m), <<>>)
           [] t = "Fixed64" -> [m EXCEPT !.pos = @ + 8]
           [] t = "Fixed32" -> [m EXCEPT !.pos = @ + 4]
           [] t = "Bytes" -> Return(decode_varint(m), <<>>)
           [] t = "None" -> m

\* a skip that advances by 8 for Fixed32 and by 4 for Fixed64
skip_fixed_swapped(m, t) ==
    IF ~Ok(m) THEN m
    ELSE CASE t = "Varint" -> Return(decode_varint(m), <<>>)
           [] t = "Fixed64" -> [m EXCEPT !.pos = @ + 4]
           [] t = "Fixed32" -> [m EXCEPT !.pos = @ + 8]
           [] t = "Bytes" ->
                LET Moved(e) == IF Ok(e) THEN [e EXCEPT !.pos = e.val, !.val = <<>>] ELSE e
                    Then(d) == IF Ok(d) THEN Moved(usize_sum(d, d.val)) ELSE d
                IN  Then(decode_varint(m))
           [] t = "None" -> m

\* Protobuf::skip
skip(m, t) ==
    IF ~Ok(m) THEN m
    ELSE CASE t = "Varint" -> Return(decode_varint(m), <<>>)
           [] t = "Fixed64" -> [m EXCEPT !.pos = @ + 8]
           [] t = "Fixed32" -> [m EXCEPT !.pos = @ + 4]
           [] t = "Bytes" ->
                LET Moved(e) == IF Ok(e) THEN [e EXCEPT !.pos = e.val, !.val = <<>>] ELSE e
                    Then(d) == IF Ok(d) THEN Moved(usize_sum(d, d.val)) ELSE d
                IN  Then(decode_varint(m))
           [] t = "None" -> m

\* Protobuf::read_field
read_field(m) ==
    LET Field(d, type) == IF type = "panic" THEN Panic(d, "Invalid value for Type")
                          ELSE Return(d, [tag |-> Shr(d.val, 3), type |-> type])
        Then(d) == IF ~Ok(d) THEN d ELSE Field(d, TypeFromU8(AsU8(BitAnd(d.val, U64(7)))))
    IN  Then(decode_varint(m))

\* Protobuf::read_bytes
read_bytes(m) ==
    LET Slice(d, end) == IF end < d.pos THEN Panic(d, "slice index starts after its end")
                         ELSE IF end > Len(d.buf) THEN Panic(d, "range end index out of range")
                         ELSE Return([d EXCEPT !.pos = @ + (end - d.pos)],
                                     SubSeq(d.buf, d.pos + 1, end))
        Sum(e) == IF ~Ok(e) THEN e ELSE Slice(e, e.val)
        Then(d) == IF ~Ok(d) THEN d ELSE Sum(usize_sum(d, d.val))
    IN  Then(decode_varint(m))

\* String::from_utf8(..).is_ok(): well-formed UTF-8 (RFC 3629).  The bytes 0x80..0xBF
\* are the continuation bytes; every other byte must start a well-formed sequence that
\* is followed by the start of the next one (or by the end).
is_utf8(b) ==
    LET Cont(i) == i <= Len(b) /\ b[i] >= 128 /\ b[i] <= 191
        In(i, lo, hi) == i <= Len(b) /\ b[i] >= lo /\ b[i] <= hi
        Next1(i) == ~Cont(i)
        WellFormedAt(i) ==
            CASE b[i] <= 127 -> Next1(i + 1)
              [] b[i] >= 194 /\ b[i] <= 223 -> Cont(i + 1) /\ Next1(i + 2)
              [] b[i] = 224 -> In(i + 1, 160, 191) /\ Cont(i + 2) /\ Next1(i + 3)
              [] b[i] >= 225 /\ b[i] <= 236 -> Cont(i + 1) /\ Cont(i + 2) /\ Next1(i + 3)
              [] b[i] = 237 -> In(i + 1, 128, 159) /\ Cont(i + 2) /\ Next1(i + 3)
              [] b[i] >= 238 /\ b[i] <= 239 -> Cont(i + 1) /\ Cont(i + 2) /\ Next1(i + 3)
              [] b[i] = 240 -> In(i + 1, 144, 191) /\ Cont(i + 2) /\ Cont(i + 3) /\ Next1(i + 4)
              [] b[i] >= 241 /\ b[i] <= 243 -> Cont(i + 1) /\ Cont(i + 2) /\ Cont(i + 3) /\ Next1(i + 4)
              [] b[i] = 244 -> In(i + 1, 128, 143) /\ Cont(i + 2) /\ Cont(i + 3) /\ Next1(i + 4)
              [] OTHER -> FALSE
    IN  /\ ~Cont(1)
        /\ \A i \in 1..Len(b) : Cont(i) \/ WellFormedAt(i)

\* Protobuf::read_string
read_string(m) ==
    LET Then(r) == IF ~Ok(r) THEN r
                   ELSE IF is_utf8(r.val) THEN r ELSE Panic(r, "Invalid UTF-8")
    IN  Then(read_bytes(m))

\* the while loop of read_fixed, at byte n with the word accumulated so far
RECURSIVE read_fixed_loop(_, _, _, _)
read_fixed_loop(m, val, n, size) ==
    IF ~(n < size) THEN Return(m, val)
    ELSE IF m.pos >= Len(m.buf) THEN Panic(m, "index out of bounds")
    ELSE read_fixed_loop([m EXCEPT !.pos = @ + 1],
                         BitOr(val, Shl(U64(m.buf[m.pos + 1]), n * 8)), n + 1, size)

\* Protobuf::read_fixed
read_fixed(m, T) ==
    LET Then(r) == IF ~Ok(r) THEN r
                   ELSE Return(r, from_u64(T, IF m.be THEN swap_bytes(r.val) ELSE r.val))
    IN  IF ~Ok(m) THEN m ELSE Then(read_fixed_loop(m, U64(0), 0, size_of(T)))

\* Protobuf::read_varint
read_varint(m, T) ==
    LET Then(d) == IF ~Ok(d) THEN d ELSE Return(d, from_u64(T, d.val))
    IN  Then(decode_varint(m))

\* Protobuf::read_s_varint
read_s_varint(m, T) ==
    LET Convert(d, c) == IF c.ok THEN Return(d, c.v)
                         ELSE Panic(d, "read_s_varint: Invalid conversion")
        Then(d) == IF ~Ok(d) THEN d ELSE Convert(d, try_from_i64(T, zagzig(d.val)))
    IN  Then(decode_varint(m))

\* the while loop of read_packed
RECURSIVE read_packed_loop(_, _, _, _)
read_packed_loop(m, T, end, res) ==
    LET Then(d) == IF ~Ok(d) THEN d
                   ELSE read_packed_loop(d, T, end, Append(res, from_u64(T, d.val)))
    IN  IF ~(m.pos < end) THEN Return(m, res) ELSE Then(decode_varint(m))

\* Protobuf::read_packed
read_packed(m, T) ==
    LET Sum(e) == IF ~Ok(e) THEN e ELSE read_packed_loop(e, T, e.val, <<>>)
        Then(d) == IF ~Ok(d) THEN d ELSE Sum(usize_sum(d, d.val))
    IN  Then(decode_varint(m))

\* the while loop of read_s_packed
RECURSIVE read_s_packed_loop(_, _, _, _)
read_s_packed_loop(m, T, end, res) ==
    LET Then(d) == IF ~Ok(d) THEN d ELSE read_s_packed_loop(d, T, end, Append(res, d.val))
    IN  IF ~(m.pos < end) THEN Return(m, res) ELSE Then(read_s_varint(m, T))

\* Protobuf::read_s_packed
read_s_packed(m, T) ==
    LET Sum(e) == IF ~Ok(e) THEN e ELSE read_s_packed_loop(e, T, e.val, <<>>)
        Then(d) == IF ~Ok(d) THEN d ELSE Sum(usize_sum(d, d.val))
    IN  Then(decode_varint(m))

-----------------------------------------------------------------------------
(* Messages.  A read-dispatch (an implementation of ProtoRead::read) is a    *)
(* record: arms maps the tags of its match to what the arm calls, and       *)
(* default is what the remaining tags do: "nothing" (the cursor is left     *)
(* alone) or "panic".  The receiving value is the list of the assignments   *)
(* the arms made: <<tag, value read>>.                                      *)

Arm(kind, ty) == [kind |-> kind, ty |-> ty, sub |-> <<>>]

MessageArm(sub) == [kind |-> "read_message", ty |-> "", sub |-> sub]

Dispatch(arms, default) == [arms |-> arms, default |-> default]

\* Option<usize>: None is <<>> and Some(n) is <<n>>
None == <<>>

Some(n) == <<n>>

\* an entry of the trace of read_fields: "read" (the dispatch is invoked) or "skip" (the
\* fallback skip is applied), for the field whose key starts at `key` and ends before `at`
Event(e, tag, type, key, at) == [e |-> e, tag |-> tag, type |-> type, key |-> key, at |-> at]

RECURSIVE read(_, _, _), read_fields_loop(_, _, _), read_fields(_, _, _), read_message(_, _)

\* ProtoRead::read of the dispatch t: the arm of the tag reads a value and assigns it
read(t, tag, m) ==
    LET Nested(c) == Return(c, c.out)
        Value(a) == CASE a.kind = "read_varint" -> read_varint(m, a.ty)
                      [] a.kind = "read_s_varint" -> read_s_varint(m, a.ty)
                      [] a.kind = "read_fixed" -> read_fixed(m, a.ty)
                      [] a.kind = "read_bytes" -> read_bytes(m)
                      [] a.kind = "read_string" -> read_string(m)
                      [] a.kind = "read_packed" -> read_packed(m, a.ty)
                      [] a.kind = "read_s_packed" -> read_s_packed(m, a.ty)
                      [] a.kind = "read_message" ->
                           Nested(read_message([m EXCEPT !.out = <<>>], a.sub))
                      [] a.kind = "unit" -> Return(m, <<>>)
        Assign(n, r) == IF ~Ok(r) THEN r
                        ELSE [r EXCEPT !.out = Append(m.out, <<n, r.val>>), !.val = <<>>]
        Match(n) == IF n \notin DOMAIN t.arms
                    THEN IF t.default = "panic" THEN Panic(m, "unknown tag") ELSE m
                    ELSE Assign(n, Value(t.arms[n]))
    IN  Match(AsUsize(tag))

\* an iteration that compares the cursor with the position of the key, so never skips
read_fields_body_no_fallback(m, t) ==
    LET Fallback(field, start_pos, r) ==
            IF ~Ok(r) THEN r
            ELSE IF m.pos = r.pos
                 THEN skip([r EXCEPT !.ev = Append(@, Event("skip", field.tag, field.type,
                                                              m.pos, start_pos))],
                           field.type)
                 ELSE r
        Field(f) ==
            IF ~Ok(f) THEN f
            ELSE Fallback(f.val, f.pos,
                          read(t, f.val.tag,
                               [f EXCEPT !.ev = Append(@, Event("read", f.val.tag, f.val.type,
                                                                 m.pos, f.pos)),
                                         !.val = <<>>]))
    IN  Field(read_field(m))

\* the body of the while loop of read_fields: one iteration
read_fields_body(m, t) ==
    LET Fallback(field, start_pos, r) ==
            IF ~Ok(r) THEN r
            ELSE IF start_pos = r.pos
                 THEN skip([r EXCEPT !.ev = Append(@, Event("skip", field.tag, field.type,
                                                              m.pos, start_pos))],
                           field.type)
                 ELSE r
        Field(f) ==
            IF ~Ok(f) THEN f
            ELSE Fallback(f.val, f.pos,
                          read(t, f.val.tag,
                               [f EXCEPT !.ev = Append(@, Event("read", f.val.tag, f.val.type,
                                                                 m.pos, f.pos)),
                                         !.val = <<>>]))
    IN  Field(read_field(m))

\* the while loop of read_fields
read_fields_loop(m, t, end) ==
    IF ~Ok(m) \/ ~(m.pos < end) THEN m ELSE read_fields_loop(read_fields_body(m, t), t, end)

\* Protobuf::read_fields
read_fields(m, t, end) ==
    IF ~Ok(m) THEN m
    ELSE Return(read_fields_loop(m, t, IF end = None THEN Len(m.buf) ELSE end[1]), <<>>)

\* Protobuf::read_message
read_message(m, t) ==
    LET Sum(e) == IF ~Ok(e) THEN e ELSE read_fields(e, t, Some(e.val))
        Then(d) == IF ~Ok(d) THEN d ELSE Sum(usize_sum(d, d.val))
    IN  Then(decode_varint(m))

\* a call of a ProtoWrite::write body: the operation, the tag, the scalar type and the value
FieldCall(op, tag, ty, x) == [op |-> op, tag |-> tag, ty |-> ty, x |-> x]

\* the ProtoRead::read that matches the ProtoWrite::write body t: one arm per tag, with
\* the read operation of the write operation, and a panic for every other tag
RECURSIVE DispatchOf(_)
DispatchOf(t) ==
    LET ArmOf(c) == CASE c.op = "write_varint_field" -> Arm("read_varint", c.ty)
                      [] c.op = "write_s_varint_field" -> Arm("read_s_varint", c.ty)
                      [] c.op = "write_fixed_field" -> Arm("read_fixed", c.ty)
                      [] c.op = "write_bytes_field" -> Arm("read_bytes", "")
                      [] c.op = "write_string_field" -> Arm("read_string", "")
                      [] c.op = "write_packed_varint" -> Arm("read_packed", c.ty)
                      [] c.op = "write_packed_s_varint" -> Arm("read_s_packed", c.ty)
                      [] c.op = "write_field" -> Arm("unit", "")
                      [] c.op = "write_message" -> MessageArm(DispatchOf(c.x))
    IN  Dispatch([n \in {AsUsize(t[i].tag) : i \in 1..Len(t)} |->
                      ArmOf(t[CHOOSE i \in 1..Len(t) : AsUsize(t[i].tag) = n])],
                 "panic")

-----------------------------------------------------------------------------
(* The state as a machine, and a machine as the next state *)

M == [buf |-> buf, pos |-> pos, panic |-> panic, val |-> ret, out |-> out, ev |-> ev,
      be |-> big_endian, pw |-> 8, oc |-> TRUE]

Set(m) ==
    /\ buf' = m.buf
    /\ pos' = m.pos
    /\ panic' = m.panic
    /\ ret' = m.val
    /\ out' = m.out
    /\ ev' = m.ev

Start(m) ==
    /\ buf = m.buf
    /\ pos = m.pos
    /\ panic = m.panic
    /\ ret = m.val
    /\ out = m.out
    /\ ev = m.ev

\* a call, its arguments, and the cursor when it was made
Call(name, args) == [op |-> name, args |-> args, at |-> pos]

-----------------------------------------------------------------------------
(* Bounds and inputs *)

\* write calls of a write session
MaxWrites == 1

\* read calls of a read session
MaxReads == 2

\* n copies of the byte b
Rep(b, n) == SubSeq([i \in 1..n |-> b], 1, n)

\* u64 values at the 7-bit group boundaries
VarintInputs ==
    {U64(0), U64(1), U64(127), U64(128), U64(129), U64(300), U64(16383), U64(16384), U64(16385),
     U64Ones(21), U64Bit(21), U64Ones(35), U64Bit(35), U64Ones(56), U64Bit(56),
     U64Ones(63), U64Bit(63), U64Ones(64)}

\* tags: 0, 1, 15, 16 (the first two-byte key), 2047, 2048, 2^61 - 1
TagInputs == {U64(0), U64(1), U64(15), U64(16), U64(2047), U64(2048), U64Ones(61)}

\* tags of the length-delimited fields: a one-byte, a two-byte and a three-byte key
FieldTags == {U64(1), U64(16), U64(2048)}

\* byte sequences: empty, short, and of length 127, 128, 129
BytesInputs == {<<>>, <<1, 2, 3>>, <<255, 0, 128>>, Rep(255, 127), Rep(255, 128), Rep(255, 129)}

\* the bytes of valid UTF-8 strings: "", "hello", "你好", and two strings of 128 and 129
\* bytes ("你" 42 times then "é", and "你" 43 times)
StringInputs ==
    LET ni == <<228, 189, 160>>
        Times(n) == SubSeq([i \in 1..(3 * n) |-> ni[((i - 1) % 3) + 1]], 1, 3 * n)
    IN  {<<>>, <<104, 101, 108, 108, 111>>, <<228, 189, 160, 229, 165, 189>>,
         Times(42) \o <<195, 169>>, Times(43)}

\* sequences of unsigned scalars of type T: empty, below and above 127, the maximum
\* of T, and (for u64) runs of 127, 128 and 130 encoded bytes
PackedInputs(T) ==
    {<<>>, <<U64(1), U64(2), U64(3)>>, <<U64(127), U64(129), U64(300)>>, <<U64(128)>>,
     <<from_u64(T, U64Ones(64))>>}
    \cup (IF T = "u64"
          THEN {Rep(U64Ones(64), 12) \o <<U64Ones(49)>>, Rep(U64Ones(64), 12) \o <<U64Ones(56)>>,
                Rep(U64Ones(64), 13)}
          ELSE {})

\* sequences of signed scalars of type T: empty, -1 -2 -3, 63 -64, 64, -65, MIN MAX, and
\* (for i64) a run of 130 encoded bytes
SPackedInputs(T) ==
    {<<>>, <<from_u64(T, Neg(U64(1))), from_u64(T, Neg(U64(2))), from_u64(T, Neg(U64(3)))>>,
     <<U64(63), from_u64(T, Neg(U64(64)))>>, <<U64(64)>>, <<from_u64(T, Neg(U64(65)))>>,
     <<U64Bit(8 * size_of(T) - 1), U64Ones(8 * size_of(T) - 1)>>}
    \cup (IF T = "i64" THEN {Rep(U64Bit(63), 13)} ELSE {})

UnsignedInputs == {"u16", "u64"}

SignedInputs == {"i32", "i64"}

-----------------------------------------------------------------------------
(* Write sessions: new(), write calls, then take() and from_input of the    *)
(* bytes taken, as the crate's tests do.                                     *)

Writing == phase = "write" /\ panic = "" /\ Len(hist) < MaxWrites

Wrote(m, c) ==
    /\ Set(m)
    /\ hist' = Append(hist, c)
    /\ UNCHANGED <<phase, big_endian, calls, nread>>

WriteVarint ==
    /\ Writing
    /\ \E v \in VarintInputs : Wrote(write_varint(M, v), Call("write_varint", <<v>>))

WriteField ==
    /\ Writing
    /\ \E t \in TagInputs, w \in Type : Wrote(write_field(M, t, w), Call("write_field", <<t, w>>))

WriteBytesField ==
    /\ Writing
    /\ \E t \in FieldTags, b \in BytesInputs :
           Wrote(write_bytes_field(M, t, b), Call("write_bytes_field", <<t, b>>))

WriteStringField ==
    /\ Writing
    /\ \E t \in FieldTags, b \in StringInputs :
           Wrote(write_string_field(M, t, b), Call("write_string_field", <<t, b>>))

WritePackedVarint ==
    /\ Writing
    /\ \E t \in FieldTags, T \in UnsignedInputs : \E xs \in PackedInputs(T) :
           Wrote(write_packed_varint(M, t, T, xs), Call("write_packed_varint", <<t, T, xs>>))

WritePackedSVarint ==
    /\ Writing
    /\ \E t \in FieldTags, T \in SignedInputs : \E xs \in SPackedInputs(T) :
           Wrote(write_packed_s_varint(M, t, T, xs), Call("write_packed_s_varint", <<t, T, xs>>))

\* let bytes = pb.take(); let mut pb = Protobuf::from_input(RefCell::new(bytes));
TakeFromInput ==
    /\ phase = "write" /\ panic = "" /\ hist # <<>>
    /\ phase' = "read"
    /\ Set(from_input(take(M).val, big_endian))
    /\ UNCHANGED <<big_endian, hist, calls, nread>>

-----------------------------------------------------------------------------
(* Read sessions *)

Reading == phase = "read" /\ panic = "" /\ nread < MaxReads

Called(m, c) ==
    /\ Set(m)
    /\ calls' = IF hist = <<>> THEN <<c>> ELSE Append(calls, c)
    /\ nread' = nread + 1
    /\ UNCHANGED <<phase, big_endian, hist>>

DecodeVarint == Reading /\ Called(decode_varint(M), Call("decode_varint", <<>>))

ReadField == Reading /\ Called(read_field(M), Call("read_field", <<>>))

ReadBytes == Reading /\ Called(read_bytes(M), Call("read_bytes", <<>>))

ReadString == Reading /\ Called(read_string(M), Call("read_string", <<>>))

ReadPacked ==
    /\ Reading
    /\ \E T \in UnsignedInputs : Called(read_packed(M, T), Call("read_packed", <<T>>))

ReadSPacked ==
    /\ Reading
    /\ \E T \in SignedInputs : Called(read_s_packed(M, T), Call("read_s_packed", <<T>>))

-----------------------------------------------------------------------------
(* Round trips: a write session and the read session on its bytes *)

Init ==
    /\ phase = "write"
    /\ big_endian \in BOOLEAN
    /\ Start(new(big_endian))
    /\ hist = <<>>
    /\ calls = <<>>
    /\ nread = 0

Next ==
    \/ WriteVarint
    \/ WriteField
    \/ WriteBytesField
    \/ WriteStringField
    \/ WritePackedVarint
    \/ WritePackedSVarint
    \/ TakeFromInput
    \/ DecodeVarint
    \/ ReadField
    \/ ReadBytes
    \/ ReadString
    \/ ReadPacked
    \/ ReadSPacked

Spec == Init /\ [][Next]_vars

-----------------------------------------------------------------------------
(* Read sessions on given input bytes, well-formed or not *)

\* the length of the given input
MaxInputLen == 2

\* the bytes of the given input: 0..7 are the keys of tag 0 with each wire-type code
\* (3, 4 and 6 are the reserved ones) and small lengths and values; 128 has the
\* continuation bit set
InputBytes == {0, 1, 2, 3, 4, 5, 6, 7, 128}

\* longer inputs: a length prefix 1 before a two-byte varint, a length prefix 2 before
\* a one-byte and a two-byte varint, and the same run with its stated length
LongInputs == {<<1, 128, 1>>, <<2, 1, 128, 1>>, <<2, 128, 1>>, <<3, 1, 128, 1>>}

InputBuffers == UNION {[1..n -> InputBytes] : n \in 0..MaxInputLen} \cup LongInputs

\* a dispatch that knows no tag and leaves the cursor alone
SkipAll == Dispatch(<<>>, "nothing")

\* a dispatch that panics on every tag (an exhaustive match with no arm)
PanicAll == Dispatch(<<>>, "panic")

\* dispatches that know tag 0: as a varint, as a nested message
Tag0Varint == Dispatch([t \in {0} |-> Arm("read_varint", "u64")], "nothing")

Tag0Message == Dispatch([t \in {0} |-> MessageArm(SkipAll)], "nothing")

InputDispatches == {SkipAll, PanicAll, Tag0Varint, Tag0Message}

ReadVarint ==
    /\ Reading
    /\ \E T \in {"u8", "u64"} : Called(read_varint(M, T), Call("read_varint", <<T>>))

\* the types read_s_varint is called with: on given input bytes i8; on written bytes
\* every signed width
ReadSVarintTypes == IF hist = <<>> THEN {"i8"} ELSE {"i8", "i16", "i32", "i64"}

ReadSVarint ==
    /\ Reading
    /\ \E T \in ReadSVarintTypes : Called(read_s_varint(M, T), Call("read_s_varint", <<T>>))

\* the types read_fixed is called with: on given input bytes a 2-byte and an 8-byte
\* one; on written bytes a 4-byte and an 8-byte one
ReadFixedTypes == IF hist = <<>> THEN {"u16", "u64"} ELSE {"i32", "u64"}

ReadFixed ==
    /\ Reading
    /\ \E T \in ReadFixedTypes : Called(read_fixed(M, T), Call("read_fixed", <<T>>))

Skip ==
    /\ Reading
    /\ \E t \in Type : Called(skip(M, t), Call("skip", <<t>>))

ReadFields ==
    /\ Reading
    /\ \E t \in InputDispatches, end \in {None} \cup {Some(e) : e \in (pos + 1)..Len(buf)} :
           Called(read_fields([M EXCEPT !.out = <<>>, !.ev = <<>>], t, end),
                  Call("read_fields", <<t, end>>))

\* the dispatches read_message is called with: on given input bytes the ones above; on
\* the bytes of a written message the dispatch that matches it, as a sequence
ReadDispatches ==
    IF hist = <<>> THEN InputDispatches
    ELSE IF hist[1].op = "write_message" THEN {DispatchOf(hist[1].args[2])}
    ELSE {SkipAll}

ReadMessage ==
    /\ Reading
    /\ \E t \in ReadDispatches :
           Called(read_message([M EXCEPT !.out = <<>>, !.ev = <<>>], t), Call("read_message", <<t>>))

InitInput ==
    /\ phase = "read"
    /\ big_endian = FALSE
    /\ \E b \in InputBuffers : Start(from_input(b, big_endian))
    /\ hist = <<>>
    /\ calls = <<>>
    /\ nread = 0

NextInput ==
    \/ DecodeVarint
    \/ ReadField
    \/ ReadBytes
    \/ ReadString
    \/ ReadVarint
    \/ ReadSVarint
    \/ ReadFixed
    \/ ReadPacked
    \/ ReadSPacked
    \/ Skip
    \/ ReadFields
    \/ ReadMessage

SpecInput == InitInput /\ [][NextInput]_vars

-----------------------------------------------------------------------------
(* Reads of input that ends early, on a target of either pointer width: the *)
(* target is hist[1].                                                       *)

\* the machine on the chosen target
OnTarget == [M EXCEPT !.pw = hist[1].pw]

\* inputs: nothing; varints that stop with the continuation bit set, among them ten
\* such bytes; complete values of 1, 4 and 8 bytes; length prefixes 0, 1, 2 and 3 before
\* fewer bytes, or as many; the length prefixes 2^32 and 2^32 + 1 before 0, 1 and 2 bytes
TruncatedInputs ==
    {<<>>, <<128>>, <<255, 255>>, Rep(255, 10), <<5>>, <<1, 2, 3>>, <<1, 2, 3, 4>>,
     <<1, 2, 3, 4, 5, 6, 7>>, <<1, 2, 3, 4, 5, 6, 7, 8>>, <<0>>, <<1>>, <<1, 7>>, <<2, 7>>,
     <<2, 7, 7>>, <<3, 7, 7>>, <<128, 128, 128, 128, 16>>, <<128, 128, 128, 128, 16, 7>>,
     <<129, 128, 128, 128, 16>>, <<129, 128, 128, 128, 16, 7>>,
     <<129, 128, 128, 128, 16, 7, 7>>}

\* decode_varint on the target
DecodeVarintOn == Reading /\ Called(decode_varint(OnTarget), Call("decode_varint", <<>>))

\* read_fixed of a 4-byte or an 8-byte type on the target
ReadFixedOn ==
    /\ Reading
    /\ \E T \in {"u32", "u64"} : Called(read_fixed(OnTarget, T), Call("read_fixed", <<T>>))

\* read_bytes on the target
ReadBytesOn == Reading /\ Called(read_bytes(OnTarget), Call("read_bytes", <<>>))

InitTruncated ==
    /\ phase = "read"
    /\ big_endian = FALSE
    /\ \E b \in TruncatedInputs : Start(from_input(b, big_endian))
    /\ \E pw \in {4, 8} : hist = <<[pw |-> pw]>>
    /\ calls = <<>>
    /\ nread = 0

NextTruncated ==
    \/ DecodeVarintOn
    \/ ReadFixedOn
    \/ ReadBytesOn

SpecTruncated == InitTruncated /\ [][NextTruncated]_vars

-----------------------------------------------------------------------------
(* zigzag and zagzig as functions on 64-bit words *)

\* the number of applications in a row
MaxApply == 2

\* the words whose set bits are among bits 0, 1, 2, 6, 31, 32, 62 and 63 (0..7, i64::MIN
\* and 2^62 among them), and the boundary values
WordInputs ==
    {Bits([i \in 1..W |-> IF i \in S THEN 1 ELSE 0]) : S \in SUBSET {1, 2, 3, 7, 32, 33, 63, 64}}
        \cup {U64Ones(63), U64Ones(64), Neg(U64(5)), Neg(U64(2)), U64(9), U64(127), U64(128),
              Neg(U64(128)), U64Ones(32), U64Bit(32)}

Applying == phase = "fn" /\ Len(calls) < MaxApply

Applied(v, name) ==
    /\ ret' = v
    /\ calls' = Append(calls, name)
    /\ UNCHANGED <<phase, big_endian, buf, pos, panic, out, ev, hist, nread>>

ApplyZigzag == Applying /\ Applied(zigzag(ret), "zigzag")

ApplyZagzig == Applying /\ Applied(zagzig(ret), "zagzig")

InitFn ==
    /\ phase = "fn"
    /\ big_endian = FALSE
    /\ \E v \in WordInputs : Start(Return(new(FALSE), v)) /\ hist = <<v>>
    /\ calls = <<>>
    /\ nread = 0

NextFn ==
    \/ ApplyZigzag
    \/ ApplyZagzig

SpecFn == InitFn /\ [][NextFn]_vars

-----------------------------------------------------------------------------
(* BitCast: to_u64 and from_u64 of both implementations, applied to values   *)
(* and to words.  A value of type T is held as its bit pattern; a bool as    *)
(* its byte, 1 for true and 0 for false.                                     *)

\* words: 0, 1, 5, -5, and for each width n the signed minimum and maximum, the
\* all-ones pattern, the sign-extended minimum and the first word beyond the width
CastWords ==
    {U64(0), U64(1), U64(5), Neg(U64(5)), U64(63), U64(64), Neg(U64(64)), Neg(U64(65))}
        \cup UNION {{U64Bit(n - 1), U64Ones(n - 1), U64Ones(n), Neg(U64Bit(n - 1))} :
                        n \in {8, 16, 32, 64}}
        \cup {U64Bit(n) : n \in {8, 16, 32}}

\* the types of the implementation impl
CastTypes(impl) == IF impl = "rust-core" THEN CorePrim ELSE Prim

\* the cast c is of type c.T in the implementation c.impl, on pointers of c.pw bytes
ToWord(c, x) == IF c.impl = "rust-core" THEN to_u64_core(c.T, x, c.pw) ELSE to_u64(c.T, x)

FromWord(c, w) == IF c.impl = "rust-core" THEN from_u64_core(c.T, w, c.pw) ELSE from_u64(c.T, w)

\* the word w is the bit pattern of a value of the cast's type
IsValue(c, w) ==
    IF c.T = "bool" THEN w \in {U64(0), U64(1)}
    ELSE Trunc(w, 8 * size_of_core(c.T, c.pw)) = w

Casting == phase = "cast" /\ Len(calls) < MaxApply

\* BitCast::to_u64 of the value at hand
ToU64 ==
    /\ Casting
    /\ IF calls = <<>> THEN IsValue(hist[1], ret) ELSE calls[Len(calls)] = "from_u64"
    /\ Applied(ToWord(hist[1], ret), "to_u64")

\* BitCast::from_u64 of the word at hand
FromU64 ==
    /\ Casting
    /\ Applied(FromWord(hist[1], ret), "from_u64")

InitCast ==
    /\ phase = "cast"
    /\ big_endian = FALSE
    /\ \E impl \in {"src", "rust-core"} : \E T \in CastTypes(impl) :
       \E pw \in (IF T \in {"usize", "isize"} THEN {4, 8} ELSE {8}), w \in CastWords :
           /\ Start(Return(new(FALSE), w))
           /\ hist = <<[impl |-> impl, T |-> T, pw |-> pw, w |-> w]>>
    /\ calls = <<>>
    /\ nread = 0

NextCast ==
    \/ ToU64
    \/ FromU64

SpecCast == InitCast /\ [][NextCast]_vars

-----------------------------------------------------------------------------
(* A well-formed message received from a peer, read by read_fields with a   *)
(* dispatch that knows some of its tags.  A wire field is the bytes of one   *)
(* field together with its tag and the value its arm delivers.              *)

\* the number of fields of the message
MaxFields == 3

WireField(tag, type, bytes, value) ==
    [tag |-> tag, type |-> type, bytes |-> bytes, value |-> value]

\* fields of tags 1, 2 and 3, which the dispatches below may know
KnownFields ==
    <<WireField(1, "Varint", <<8, 5>>, U64(5)),
     WireField(1, "Varint", <<8, 172, 2>>, U64(300)),
     WireField(2, "Bytes", <<18, 1, 120>>, <<120>>),
     WireField(2, "Bytes", <<18, 0>>, <<>>),
     \* a nested message: tag 1 varint 5, then a Fixed32 field of tag 4
     WireField(3, "Bytes", <<26, 7, 8, 5, 37, 1, 2, 3, 4>>, <<<<1, U64(5)>>>>)>>

\* fields no dispatch knows, one of every wire type; tag 16 has a two-byte key
UnknownFields ==
    <<WireField(4, "Varint", <<32, 1>>, <<>>),
     WireField(4, "Fixed32", <<37, 1, 2, 3, 4>>, <<>>),
     WireField(5, "Fixed64", <<41, 1, 2, 3, 4, 5, 6, 7, 8>>, <<>>),
     WireField(6, "Bytes", <<50, 2, 8, 5>>, <<>>),
     WireField(7, "None", <<63>>, <<>>),
     WireField(16, "Varint", <<128, 1, 9>>, <<>>)>>

WireFields == KnownFields \o UnknownFields

\* the dispatch of the nested message of tag 3: it knows tag 1
InnerDispatch == Dispatch([t \in {1} |-> Arm("read_varint", "u64")], "nothing")

OnlyTag2 == Dispatch([t \in {2} |-> Arm("read_bytes", "")], "nothing")

Tags1And2 ==
    Dispatch([t \in {1, 2} |-> IF t = 1 THEN Arm("read_varint", "u64") ELSE Arm("read_bytes", "")],
             "nothing")

Tags1And3 ==
    Dispatch([t \in {1, 3} |-> IF t = 1 THEN Arm("read_varint", "u64") ELSE MessageArm(InnerDispatch)],
             "nothing")

\* a dispatch whose arm for tag 7 reads nothing
Tag7Unit == Dispatch([t \in {7} |-> Arm("unit", "")], "nothing")

MessageDispatches == <<SkipAll, OnlyTag2, Tags1And2, Tags1And3, Tag7Unit>>

\* the peer appends one more field to the message
PutField ==
    /\ phase = "build"
    /\ Len(hist) < MaxFields
    /\ \E i \in 1..Len(WireFields) :
           /\ buf' = buf \o WireFields[i].bytes
           /\ hist' = Append(hist, WireFields[i])
    /\ UNCHANGED <<phase, big_endian, pos, panic, ret, out, ev, calls, nread>>

\* the message is read from cursor 0 to the end of the buffer
DecodeMessage ==
    /\ phase = "build"
    /\ \E i \in 1..Len(MessageDispatches) :
           /\ Set(read_fields(from_input(buf, big_endian), MessageDispatches[i], None))
           /\ calls' = <<Call("read_fields", <<MessageDispatches[i], None>>)>>
    /\ phase' = "decoded"
    /\ nread' = 1
    /\ UNCHANGED <<big_endian, hist>>

InitMsg ==
    /\ phase = "build"
    /\ big_endian = FALSE
    /\ Start(from_input(<<>>, big_endian))
    /\ hist = <<>>
    /\ calls = <<>>
    /\ nread = 0

NextMsg ==
    \/ PutField
    \/ DecodeMessage

SpecMsg == InitMsg /\ [][NextMsg]_vars

-----------------------------------------------------------------------------
(* Skipping: a well-formed message is read field by field, each key with     *)
(* read_field and each value with skip of the key's type                     *)

\* Protobuf::from_input on the bytes of the message
FromInput ==
    /\ phase = "build" /\ hist # <<>>
    /\ phase' = "read"
    /\ Set(from_input(buf, big_endian))
    /\ UNCHANGED <<big_endian, hist, calls, nread>>

\* pb.skip(field.r#type) on the field read_field has just returned
SkipField ==
    /\ Reading
    /\ calls # <<>> /\ calls[Len(calls)].op = "read_field"
    /\ Called(skip(M, ret.type), Call("skip", <<ret.type>>))

NextSkip ==
    \/ PutField
    \/ FromInput
    \/ ReadField
    \/ SkipField

SpecSkip == InitMsg /\ [][NextSkip]_vars

-----------------------------------------------------------------------------
(* Nested messages: write_message of a value, then read_field and            *)
(* read_message with the matching dispatch                                   *)

\* the UTF-8 bytes of "你" n times
Utf8Run(n) == SubSeq([i \in 1..(3 * n) |-> <<228, 189, 160>>[((i - 1) % 3) + 1]], 1, 3 * n)

\* values implementing ProtoWrite, as the calls of their write: the message of
\* tests::test_message; the empty one; messages whose bytes are 127, 128 and 132 long;
\* messages nested two and three levels deep
MessageInputs ==
    <<<<FieldCall("write_varint_field", U64(1), "u64", U64(1)),
        FieldCall("write_string_field", U64(2), "", <<104, 101, 108, 108, 111>>)>>,
      <<>>,
      <<FieldCall("write_string_field", U64(2), "", Utf8Run(41) \o <<195, 169>>)>>,
      <<FieldCall("write_string_field", U64(2), "", Utf8Run(42))>>,
      <<FieldCall("write_string_field", U64(2), "", Utf8Run(43))>>,
      <<FieldCall("write_message", U64(3), "", <<FieldCall("write_varint_field", U64(1), "u64", U64(5))>>),
        FieldCall("write_varint_field", U64(1), "u64", U64(300))>>,
      <<FieldCall("write_message", U64(3), "",
                  <<FieldCall("write_message", U64(3), "",
                              <<FieldCall("write_string_field", U64(2), "",
                                          <<104, 101, 108, 108, 111>>)>>)>>)>>>>

WriteMessage ==
    /\ Writing
    /\ \E tag \in FieldTags, i \in 1..Len(MessageInputs) :
           Wrote(write_message(M, tag, MessageInputs[i]),
                 Call("write_message", <<tag, MessageInputs[i]>>))

NextNested ==
    \/ WriteMessage
    \/ TakeFromInput
    \/ ReadField
    \/ ReadMessage

SpecNested == Init /\ [][NextNested]_vars

-----------------------------------------------------------------------------
(* Fixed-width values: write_fixed and write_fixed_field, then read_field    *)
(* and read_fixed                                                            *)

\* the 64-bit word whose little-endian bytes are b
Word(b) == Bits([i \in 1..W |-> IF (i - 1) \div 8 < Len(b)
                                THEN (b[((i - 1) \div 8) + 1] \div Pow2((i - 1) % 8)) % 2
                                ELSE 0])

\* values of type T: 5, -5 (or its bit pattern), a value whose bytes all differ, and
\* the value with only the top bit of T set
FixedInputs(T) ==
    {from_u64(T, U64(5)), from_u64(T, Neg(U64(5))), from_u64(T, Word(<<1, 2, 3, 4, 5, 6, 7, 8>>)),
     U64Bit(8 * size_of(T) - 1)}

\* the types write_fixed is called with
FixedTypes == {"u32", "i32", "u64"}

\* the types write_fixed_field is called with: 4 and 8 bytes wide, and 1 and 2
FixedFieldTypes == {"i32", "u64", "u8", "i16"}

WriteFixed ==
    /\ Writing
    /\ \E T \in FixedTypes : \E x \in FixedInputs(T) :
           Wrote(write_fixed(M, T, x), Call("write_fixed", <<T, x>>))

WriteFixedField ==
    /\ Writing
    /\ \E t \in FieldTags, T \in FixedFieldTypes : \E x \in FixedInputs(T) :
           Wrote(write_fixed_field(M, t, T, x), Call("write_fixed_field", <<t, T, x>>))

NextFixed ==
    \/ WriteFixed
    \/ WriteFixedField
    \/ TakeFromInput
    \/ ReadField
    \/ ReadFixed

SpecFixed == Init /\ [][NextFixed]_vars

-----------------------------------------------------------------------------
(* Signed varint fields: write_s_varint_field, then read_field and           *)
(* read_s_varint                                                             *)

\* values of the signed type T: 5, -5, 63, 64, -64, -65, T::MIN and T::MAX
SignedFieldInputs(T) ==
    {from_u64(T, v) : v \in {U64(5), Neg(U64(5)), U64(63), U64(64), Neg(U64(64)), Neg(U64(65))}}
        \cup {U64Bit(8 * size_of(T) - 1), U64Ones(8 * size_of(T) - 1)}

WriteSVarintField ==
    /\ Writing
    /\ \E t \in {U64(1), U64(2)}, T \in {"i8", "i16", "i32", "i64"} : \E x \in SignedFieldInputs(T) :
           Wrote(write_s_varint_field(M, t, T, x), Call("write_s_varint_field", <<t, T, x>>))

NextSigned ==
    \/ WriteSVarintField
    \/ TakeFromInput
    \/ ReadField
    \/ ReadSVarint

SpecSigned == Init /\ [][NextSigned]_vars

-----------------------------------------------------------------------------
(* One write, or up to MaxReads reads, on a buffer that already holds bytes, *)
(* with the cursor anywhere in it: from_input, then set_pos.                *)

\* the bytes already in the buffer: a varint field, and a length prefix before it
FrameBuffers == {<<8, 5>>, <<2, 8, 5>>}

WriteSVarint ==
    /\ Writing
    /\ \E v \in {U64(5), Neg(U64(5))} : Wrote(write_s_varint(M, v), Call("write_s_varint", <<v>>))

WriteLengthVarint ==
    /\ Writing
    /\ \E t \in FieldTags, n \in {0, 300} :
           Wrote(write_length_varint(M, t, n), Call("write_length_varint", <<t, n>>))

WriteVarintField ==
    /\ Writing
    /\ \E t \in FieldTags, x \in {U64(5), U64(300)} :
           Wrote(write_varint_field(M, t, "u64", x), Call("write_varint_field", <<t, "u64", x>>))

WriteString ==
    /\ Writing
    /\ \E b \in {<<>>, <<104, 101, 108, 108, 111>>} :
           Wrote(write_string(M, b), Call("write_string", <<b>>))

InitFrame ==
    /\ phase \in {"write", "read"}
    /\ big_endian = FALSE
    /\ \E b \in FrameBuffers : \E p \in 0..Len(b) : Start(set_pos(from_input(b, big_endian), p))
    /\ hist = <<>>
    /\ calls = <<>>
    /\ nread = 0

NextFrame ==
    \/ (hist = <<>> /\ WriteVarint)
    \/ (hist = <<>> /\ WriteSVarint)
    \/ (hist = <<>> /\ WriteFixed)
    \/ (hist = <<>> /\ WriteField)
    \/ (hist = <<>> /\ WriteLengthVarint)
    \/ (hist = <<>> /\ WriteVarintField)
    \/ (hist = <<>> /\ WriteSVarintField)
    \/ (hist = <<>> /\ WritePackedVarint)
    \/ (hist = <<>> /\ WritePackedSVarint)
    \/ (hist = <<>> /\ WriteFixedField)
    \/ (hist = <<>> /\ WriteString)
    \/ (hist = <<>> /\ WriteStringField)
    \/ (hist = <<>> /\ WriteBytesField)
    \/ (hist = <<>> /\ WriteMessage)
    \/ DecodeVarint
    \/ ReadField
    \/ ReadBytes
    \/ ReadString
    \/ ReadVarint
    \/ ReadSVarint
    \/ ReadFixed
    \/ ReadPacked
    \/ ReadSPacked
    \/ Skip
    \/ ReadFields
    \/ ReadMessage

SpecFrame == InitFrame /\ [][NextFrame]_vars

-----------------------------------------------------------------------------
(* Write sessions of several calls on one buffer                             *)

MaxSessionWrites == 2

MaxTakes == 2

\* the number of calls of take in the calls h
RECURSIVE Takes(_)
Takes(h) == IF h = <<>> THEN 0 ELSE (IF Head(h).op = "take" THEN 1 ELSE 0) + Takes(Tail(h))

SessionWriting ==
    phase = "write" /\ panic = "" /\ Len(hist) - Takes(hist) < MaxSessionWrites

\* values of type T: 5 and, for the 4- and 8-byte types, -5 (or its bit pattern)
FixedFieldInputs(T) ==
    IF size_of(T) \in {4, 8} THEN {from_u64(T, U64(5)), from_u64(T, Neg(U64(5)))}
    ELSE {from_u64(T, U64(5))}

\* tags with a one-byte and with a three-byte key
SessionTags == {U64(1), U64(2048)}

\* Protobuf::write_fixed_field on a buffer that may already hold bytes
AppendFixedField ==
    /\ SessionWriting
    /\ \E t \in SessionTags, T \in FixedFieldTypes : \E x \in FixedFieldInputs(T) :
           Wrote(write_fixed_field(M, t, T, x), Call("write_fixed_field", <<t, T, x>>))

\* Protobuf::write_varint on a buffer that may already hold bytes
AppendVarint ==
    /\ SessionWriting
    /\ \E v \in {U64(0), U64(300)} : Wrote(write_varint(M, v), Call("write_varint", <<v>>))

\* Protobuf::write_bytes_field on a buffer that may already hold bytes
AppendBytesField ==
    /\ SessionWriting
    /\ \E v \in {<<>>, <<1, 2>>} :
           Wrote(write_bytes_field(M, U64(2), v), Call("write_bytes_field", <<U64(2), v>>))

\* Protobuf::take, after which the session goes on
Take ==
    /\ phase = "write" /\ panic = "" /\ Takes(hist) < MaxTakes
    /\ Wrote(take(M), Call("take", <<>>))

NextSession ==
    \/ AppendFixedField
    \/ AppendVarint
    \/ AppendBytesField
    \/ Take

SpecSession == Init /\ [][NextSession]_vars

-----------------------------------------------------------------------------
(* The derive macros ProtoWrite and ProtoRead on a struct: the declaration   *)
(* is a list of fields, each with its pbf attributes and its type; a derive  *)
(* yields its list of statements, each with the tag it was given             *)

MaxItems == 3

\* FieldAttributes (tag, ignore) of a field or variant, and its type
Attr(tag, ignore, ty) == [tag |-> tag, ignore |-> ignore, ty |-> ty]

\* Option::unwrap_or
unwrap_or(o, d) == IF o = None THEN d ELSE o[1]

\* a statement of a derived write or an arm of a derived read: the field or variant
\* (by its place in the declaration), the tag and the Protobuf method called
Statement(item, tag, method) ==
    [item |-> item, tag |-> tag, method |-> method, option |-> FALSE]

\* the statement wrapped for an Option: `if let Some(x) = &value { statement }` in a
\* write, `Some(read)` in a read
IfSome(st) == IF st = None THEN None ELSE Some([st[1] EXCEPT !.option = TRUE])

\* field_type_to_write_method: the method for the type, with the tag attr.tag or else
\* field_index
field_type_to_write_method(i, ty, field_index, attr) ==
    CASE ty = "u64" -> Some(Statement(i, unwrap_or(attr.tag, field_index), "write_varint_field"))
      [] ty = "String" ->
             Some(Statement(i, unwrap_or(attr.tag, field_index), "write_string_field"))
      [] ty = "Option<u64>" ->
             IfSome(Some(Statement(i, unwrap_or(attr.tag, field_index), "write_varint_field")))
      [] OTHER -> None

\* field_type_to_read_method: the arm for the type, with the tag attr.tag or else
\* field_index
field_type_to_read_method(i, ty, field_index, attr) ==
    CASE ty = "u64" -> Some(Statement(i, unwrap_or(attr.tag, field_index), "read_varint"))
      [] ty = "String" -> Some(Statement(i, unwrap_or(attr.tag, field_index), "read_string"))
      [] ty = "Option<u64>" ->
             IfSome(Some(Statement(i, unwrap_or(attr.tag, field_index), "read_varint")))
      [] OTHER -> None

\* a derive that counts an ignored field as well
RECURSIVE write_struct_counting_ignored(_, _, _, _)
write_struct_counting_ignored(fields, i, field_index, d) ==
    LET Push(st) ==
            IF st = None THEN Panic(d, "Unsupported type in ProtoWrite derive")
            ELSE write_struct_counting_ignored(
                     fields, i + 1,
                     IF fields[i].tag # None THEN fields[i].tag[1] + 1 ELSE field_index + 1,
                     [d EXCEPT !.val = Append(@, st[1])])
    IN  IF i > Len(fields) \/ ~Ok(d) THEN d
        ELSE IF fields[i].ignore
             THEN write_struct_counting_ignored(fields, i + 1, field_index + 1, d)
             ELSE Push(field_type_to_write_method(i, fields[i].ty, field_index, fields[i]))

\* the for loop of derive_proto_write_struct over the named fields, from field i on
RECURSIVE write_struct_loop(_, _, _, _)
write_struct_loop(fields, i, field_index, d) ==
    LET Push(st) ==
            IF st = None THEN Panic(d, "Unsupported type in ProtoWrite derive")
            ELSE write_struct_loop(
                     fields, i + 1,
                     IF fields[i].tag # None THEN fields[i].tag[1] + 1 ELSE field_index + 1,
                     [d EXCEPT !.val = Append(@, st[1])])
    IN  IF i > Len(fields) \/ ~Ok(d) THEN d
        ELSE IF fields[i].ignore THEN write_struct_loop(fields, i + 1, field_index, d)
             ELSE Push(field_type_to_write_method(i, fields[i].ty, field_index, fields[i]))

\* derive_proto_write_struct: the write statements, field_index starting at 0
derive_proto_write_struct(fields) == write_struct_loop(fields, 1, 0, new(FALSE))

\* the for loop of derive_proto_read_struct over the named fields, from field i on
RECURSIVE read_struct_loop(_, _, _, _)
read_struct_loop(fields, i, field_index, d) ==
    LET Push(st) ==
            IF st = None THEN Panic(d, "Unsupported type in ProtoRead derive")
            ELSE read_struct_loop(
                     fields, i + 1,
                     IF fields[i].tag # None THEN fields[i].tag[1] + 1 ELSE field_index + 1,
                     [d EXCEPT !.val = Append(@, st[1])])
    IN  IF i > Len(fields) \/ ~Ok(d) THEN d
        ELSE IF fields[i].ignore THEN read_struct_loop(fields, i + 1, field_index, d)
             ELSE Push(field_type_to_read_method(i, fields[i].ty, field_index, fields[i]))

\* derive_proto_read_struct: the arms of the match on the tag, field_index starting at 0
derive_proto_read_struct(fields) == read_struct_loop(fields, 1, 0, new(FALSE))

\* the declarations of a field: no tag or an explicit one (0, 1 or 10), ignored or not,
\* of a primitive type, a String or an Option
FieldInputs ==
    {Attr(tag, ignore, ty) :
         tag \in {None, Some(0), Some(1), Some(10)}, ignore \in BOOLEAN,
         ty \in {"u64", "String", "Option<u64>"}}

Declaring == phase = "declare" /\ calls = <<>> /\ Len(hist) < MaxItems

\* one more named field in the struct
DeclareField ==
    /\ Declaring
    /\ \E attr \in FieldInputs : hist' = Append(hist, attr)
    /\ UNCHANGED <<phase, big_endian, buf, pos, panic, ret, out, ev, calls, nread>>

Deriving(name) ==
    /\ phase = "declare" /\ panic = ""
    /\ \A i \in 1..Len(calls) : calls[i] # name
    /\ calls' = Append(calls, name)

\* #[derive(ProtoWrite)] on the struct: out holds the write statements
DeriveProtoWrite ==
    LET Expanded(d) ==
            /\ panic' = d.panic
            /\ out' = d.val
    IN  /\ Deriving("ProtoWrite")
        /\ Expanded(derive_proto_write_struct(hist))
        /\ UNCHANGED <<phase, big_endian, buf, pos, ret, ev, hist, nread>>

\* #[derive(ProtoRead)] on the struct: ev holds the arms of the match
DeriveProtoRead ==
    LET Expanded(d) ==
            /\ panic' = d.panic
            /\ ev' = d.val
    IN  /\ Deriving("ProtoRead")
        /\ Expanded(derive_proto_read_struct(hist))
        /\ UNCHANGED <<phase, big_endian, buf, pos, ret, out, hist, nread>>

InitDerive ==
    /\ phase = "declare"
    /\ big_endian = FALSE
    /\ Start(new(FALSE))
    /\ hist = <<>>
    /\ calls = <<>>
    /\ nread = 0

NextDerive ==
    \/ DeclareField
    \/ DeriveProtoWrite
    \/ DeriveProtoRead

SpecDerive == InitDerive /\ [][NextDerive]_vars

-----------------------------------------------------------------------------
(* #[derive(BitCast)] on an enum: the enum is the list of its variants in   *)
(* declaration order, a value of the enum is the place of its variant.      *)

\* a variant: its explicit discriminant, if any, and whether it has no fields
Variant(discriminant, unit) == [discriminant |-> discriminant, unit |-> unit]

\* the for loop of expand_bitcast over the variants, from variant i on
RECURSIVE bitcast_loop(_, _, _)
bitcast_loop(variants, i, d) ==
    LET MatchArm(expr) == [variant |-> i, expr |-> expr]
        Push(v) ==
            IF ~v.unit THEN Panic(d, "BitCast can only be derived for unit-like enums")
            ELSE IF v.discriminant = None
                 THEN Panic(d, "BitCast requires explicit discriminants on all variants")
                 ELSE bitcast_loop(
                          variants, i + 1,
                          [d EXCEPT !.val =
                               [from_u64_arms |-> Append(@.from_u64_arms, MatchArm(v.discriminant[1])),
                                to_u64_arms |-> Append(@.to_u64_arms, MatchArm(v.discriminant[1]))]])
    IN  IF i > Len(variants) \/ ~Ok(d) THEN d ELSE Push(variants[i])

\* expand_bitcast: the arms of the generated from_u64 and to_u64
expand_bitcast(variants) ==
    bitcast_loop(variants, 1, Return(new(FALSE), [from_u64_arms |-> <<>>, to_u64_arms |-> <<>>]))

\* a from_u64 that falls back to the first variant
derived_from_u64_fallback(arms, val, m) ==
    IF \E k \in 1..Len(arms) : U64(arms[k].expr) = val
    THEN Return(m, arms[CHOOSE k \in 1..Len(arms) : U64(arms[k].expr) = val].variant)
    ELSE IF arms = <<>> THEN Panic(m, "Invalid enum value") ELSE Return(m, arms[1].variant)

\* the generated from_u64: `match val { arms, _ => panic!("Invalid enum value") }`
derived_from_u64(arms, val, m) ==
    IF \E k \in 1..Len(arms) : U64(arms[k].expr) = val
    THEN Return(m, arms[CHOOSE k \in 1..Len(arms) :
                            /\ U64(arms[k].expr) = val
                            /\ \A j \in 1..(k - 1) : U64(arms[j].expr) # val].variant)
    ELSE Panic(m, "Invalid enum value")

\* the generated to_u64: `match self { arms }`
derived_to_u64(arms, x, m) ==
    Return(m, U64(arms[CHOOSE k \in 1..Len(arms) : arms[k].variant = x].expr))

\* the declarations of a variant: no discriminant or 1, 2 or 3, with fields or without
BitCastVariantInputs ==
    {Variant(discriminant, unit) :
         discriminant \in {None, Some(1), Some(2), Some(3)}, unit \in BOOLEAN}

\* the words given to from_u64: 0 to 4, and 3 + 2^32
BitCastWords == {U64(n) : n \in 0..4} \cup {[U64(3) EXCEPT ![33] = 1]}

\* one more variant in the enum; the compiler rejects a discriminant used twice
DeclareBitCastVariant ==
    /\ Declaring
    /\ \E v \in BitCastVariantInputs :
           /\ \A i \in 1..Len(hist) : v.discriminant = None \/ hist[i].discriminant # v.discriminant
           /\ hist' = Append(hist, v)
    /\ UNCHANGED <<phase, big_endian, buf, pos, panic, ret, out, ev, calls, nread>>

\* #[derive(BitCast)] on the enum: ev holds the arms
DeriveBitCast ==
    LET Expanded(d) ==
            /\ panic' = d.panic
            /\ ev' = d.val
    IN  /\ phase = "declare"
        /\ Expanded(expand_bitcast(hist))
        /\ phase' = "derived"
        /\ UNCHANGED <<big_endian, buf, pos, ret, out, hist, calls, nread>>

EnumCasting(name) ==
    /\ phase = "derived" /\ panic = ""
    /\ \A i \in 1..Len(calls) : calls[i].op # name /\ calls[i].op # "from_u64"

\* to_u64 of a value of the enum
EnumToU64 ==
    /\ EnumCasting("to_u64")
    /\ \E x \in 1..Len(hist) :
           /\ Set(derived_to_u64(ev.to_u64_arms, x, M))
           /\ calls' = Append(calls, Call("to_u64", <<x>>))
    /\ UNCHANGED <<phase, big_endian, hist, nread>>

\* from_u64 of a word, or of the word to_u64 has just returned
EnumFromU64 ==
    /\ EnumCasting("from_u64")
    /\ \E val \in BitCastWords \cup (IF calls = <<>> THEN {} ELSE {ret}) :
           /\ Set(derived_from_u64(ev.from_u64_arms, val, M))
           /\ calls' = Append(calls, Call("from_u64", <<val>>))
    /\ UNCHANGED <<phase, big_endian, hist, nread>>

NextBitCastEnum ==
    \/ DeclareBitCastVariant
    \/ DeriveBitCast
    \/ EnumToU64
    \/ EnumFromU64

SpecBitCastEnum == InitDerive /\ [][NextBitCastEnum]_vars

-----------------------------------------------------------------------------
(* The derive macros on an enum: the declaration is a list of variants, each *)
(* with its pbf attributes and the type of its payload ("" for a variant     *)
(* with no payload); a value is written by the derived write and read back   *)
(* by read_fields with the derived read                                      *)

\* field_type_to_read_enum: the variant built from the read of the payload's type
field_type_to_read_enum(i, ty, field_index) ==
    CASE ty = "u64" -> Some(Statement(i, field_index, "read_varint"))
      [] ty = "String" -> Some(Statement(i, field_index, "read_string"))
      [] ty = "Option<u64>" -> IfSome(Some(Statement(i, field_index, "read_varint")))
      [] OTHER -> None

\* the for loop of derive_proto_write_enum over the variants, from variant i on
RECURSIVE write_enum_loop(_, _, _, _)
write_enum_loop(variants, i, field_index, d) ==
    LET Next_index == IF variants[i].tag # None THEN variants[i].tag[1] + 1 ELSE field_index + 1
        Push(st) ==
            IF st = None THEN Panic(d, "Unsupported type in ProtoWrite derive")
            ELSE write_enum_loop(variants, i + 1, Next_index, [d EXCEPT !.val = Append(@, st[1])])
    IN  IF i > Len(variants) \/ ~Ok(d) THEN d
        ELSE IF variants[i].ty = ""
             THEN write_enum_loop(variants, i + 1, field_index,
                                  [d EXCEPT !.val = Append(@, Statement(i, field_index, "write_field"))])
             ELSE IF variants[i].ignore THEN write_enum_loop(variants, i + 1, Next_index, d)
                  ELSE Push(field_type_to_write_method(i, variants[i].ty, field_index, variants[i]))

\* derive_proto_write_enum: the arms of the match on self, field_index starting at 0
derive_proto_write_enum(variants) == write_enum_loop(variants, 1, 0, new(FALSE))

\* the for loop of derive_proto_read_enum over the variants, from variant i on; the
\* counter is first set to the variant's explicit tag if it has one
RECURSIVE read_enum_loop(_, _, _, _)
read_enum_loop(variants, i, field_index, d) ==
    LET Next_index == IF variants[i].tag # None THEN variants[i].tag[1] + 1
                      ELSE unwrap_or(variants[i].tag, field_index) + 1
        Push(st) ==
            IF st = None THEN Panic(d, "Unsupported type in ProtoRead derive")
            ELSE read_enum_loop(variants, i + 1, Next_index, [d EXCEPT !.val = Append(@, st[1])])
    IN  IF i > Len(variants) \/ ~Ok(d) THEN d
        ELSE IF variants[i].ty = ""
             THEN read_enum_loop(variants, i + 1, unwrap_or(variants[i].tag, field_index),
                                 [d EXCEPT !.val = Append(@, Statement(i, unwrap_or(variants[i].tag, field_index), "unit"))])
             ELSE IF variants[i].ignore THEN read_enum_loop(variants, i + 1, Next_index, d)
                  ELSE Push(field_type_to_read_enum(i, variants[i].ty,
                                                    unwrap_or(variants[i].tag, field_index)))

\* derive_proto_read_enum: the arms of the match on the tag, field_index starting at 0
derive_proto_read_enum(variants) == read_enum_loop(variants, 1, 0, new(FALSE))

\* the first arm of arms whose pattern is the variant (or the tag) n
ArmOfItem(arms, n) == arms[CHOOSE k \in 1..Len(arms) : arms[k].item = n /\ \A j \in 1..(k - 1) : arms[j].item # n]

ArmOfTag(arms, n) == arms[CHOOSE k \in 1..Len(arms) : arms[k].tag = n /\ \A j \in 1..(k - 1) : arms[j].tag # n]

\* a derived match whose default arm does nothing
DerivedDispatchLenient(arms) ==
    Dispatch([n \in {arms[k].tag : k \in 1..Len(arms)} |->
                  IF ArmOfTag(arms, n).method = "unit" THEN Arm("unit", "")
                  ELSE Arm(ArmOfTag(arms, n).method, "u64")],
             "nothing")

\* the derived `match tag`: the first arm of each tag, and a panic for every other tag
DerivedDispatch(arms) ==
    Dispatch([n \in {arms[k].tag : k \in 1..Len(arms)} |->
                  IF ArmOfTag(arms, n).method = "unit" THEN Arm("unit", "")
                  ELSE Arm(ArmOfTag(arms, n).method, "u64")],
             "panic")

\* the derived `match self` on the value of variant i with payload p: the calls it makes
DerivedWrite(arms, i, p) ==
    LET Body(arm) ==
            IF arm.method = "write_field"
            THEN <<FieldCall("write_field", U64(arm.tag), "None", <<>>)>>
            ELSE IF arm.option
                 THEN (IF p = None THEN <<>>
                       ELSE <<FieldCall(arm.method, U64(arm.tag), "u64", p[1])>>)
                 ELSE <<FieldCall(arm.method, U64(arm.tag), "u64", p)>>
    IN  Body(ArmOfItem(arms, i))

\* a value of the enum: the variant (by its place in the declaration) and its payload
Value(i, p) == [variant |-> i, payload |-> p]

\* the value `*self = match tag { arms }` leaves after the reads delivered in out, from
\* the value before the first of them
DerivedValue(arms, delivered, before) ==
    LET Built(arm, v) == Value(arm.item, IF arm.method = "unit" THEN <<>>
                                        ELSE IF arm.option THEN Some(v) ELSE v)
    IN  IF delivered = <<>> THEN before
        ELSE Built(ArmOfTag(arms, delivered[Len(delivered)][1]), delivered[Len(delivered)][2])

\* the declarations of a variant: no tag or an explicit one (0, 1 or 5), without a
\* payload, with a u64 or with an Option<u64>
VariantInputs ==
    {Attr(tag, FALSE, ty) :
         tag \in {None, Some(0), Some(1), Some(5)}, ty \in {"", "u64", "Option<u64>"}}

\* the payloads of a variant of payload type ty
PayloadInputs(ty) ==
    CASE ty = "" -> {<<>>}
      [] ty = "u64" -> {U64(5)}
      [] ty = "Option<u64>" -> {None, Some(U64(5))}

\* one more variant in the enum
DeclareVariant ==
    /\ Declaring
    /\ \E attr \in VariantInputs : hist' = Append(hist, attr)
    /\ UNCHANGED <<phase, big_endian, buf, pos, panic, ret, out, ev, calls, nread>>

\* ProtoWrite::write of a value of the enum, by the derived write, on a new buffer
WriteVariant ==
    /\ phase = "declare" /\ hist # <<>>
    /\ \E i \in 1..Len(hist) : \E p \in PayloadInputs(hist[i].ty) :
           /\ Set(write(DerivedWrite(derive_proto_write_enum(hist).val, i, p), new(big_endian)))
           /\ calls' = <<Call("write", <<i, p>>)>>
    /\ phase' = "written"
    /\ UNCHANGED <<big_endian, hist, nread>>

\* read_fields of the written bytes into the value Default::default() of the enum, the
\* variant marked #[default], by the derived read; ret is the value afterwards
ReadVariant ==
    LET Read(arms, before) ==
            LET Then(m) == Set(IF Ok(m) THEN Return(m, DerivedValue(arms, m.out, before)) ELSE m)
            IN  Then(read_fields(from_input(buf, big_endian), DerivedDispatch(arms), None))
    IN  /\ phase = "written" /\ panic = ""
        /\ \E d \in {i \in 1..Len(hist) : hist[i].ty = ""} :
               /\ Read(derive_proto_read_enum(hist).val, Value(d, <<>>))
               /\ calls' = Append(calls, Call("read_fields", <<d>>))
        /\ phase' = "decoded"
        /\ UNCHANGED <<big_endian, hist, nread>>

NextDeriveEnum ==
    \/ DeclareVariant
    \/ WriteVariant
    \/ ReadVariant

SpecDeriveEnum == InitDerive /\ [][NextDeriveEnum]_vars

-----------------------------------------------------------------------------
(* A value of a struct with derived ProtoWrite and ProtoRead: written by    *)
(* the derived write, then read by read_fields with the derived read into   *)
(* Default::default().  The value is the list of the values of its fields.  *)

\* named fields of the struct
MaxStructFields == 2

\* Default::default() of a field of type ty
DefaultOf(ty) ==
    CASE ty = "u64" -> U64(0)
      [] ty = "String" -> <<>>
      [] ty = "Option<u64>" -> None

\* a derived write that writes the default of the inner type for None
derived_write_none_as_default(st, x) ==
    IF st.option
    THEN <<FieldCall(st.method, U64(st.tag), "u64", IF x = None THEN U64(0) ELSE x[1])>>
    ELSE <<FieldCall(st.method, U64(st.tag), "u64", x)>>

\* the statement st of the derived write on the field value x: the calls it makes, none
\* under `if let Some(..)` when x is None
derived_write_field(st, x) ==
    IF st.option
    THEN (IF x = None THEN <<>> ELSE <<FieldCall(st.method, U64(st.tag), "u64", x[1])>>)
    ELSE <<FieldCall(st.method, U64(st.tag), "u64", x)>>

\* the derived ProtoWrite::write of the struct value: its statements in order
RECURSIVE DerivedStructWrite(_, _)
DerivedStructWrite(stmts, value) ==
    IF stmts = <<>> THEN <<>>
    ELSE derived_write_field(Head(stmts), value[Head(stmts).item])
             \o DerivedStructWrite(Tail(stmts), value)

\* the struct after the assignments `self.field = read` of the reads delivered in out,
\* from the struct `before`
RECURSIVE DerivedStruct(_, _, _)
DerivedStruct(arms, delivered, before) ==
    LET Assigned(arm, v) == [before EXCEPT ![arm.item] = IF arm.option THEN Some(v) ELSE v]
    IN  IF delivered = <<>> THEN before
        ELSE DerivedStruct(arms, Tail(delivered),
                           Assigned(ArmOfTag(arms, Head(delivered)[1]), Head(delivered)[2]))

\* the declarations of a field of the struct: no tag or the explicit tag 10, ignored or
\* not, of a primitive type, a String or an Option
StructFieldInputs ==
    {Attr(tag, ignore, ty) :
         tag \in {None, Some(10)}, ignore \in BOOLEAN, ty \in {"u64", "String", "Option<u64>"}}

\* the values of a field: an ignored field keeps its default
FieldValueInputs(attr) ==
    IF attr.ignore THEN {DefaultOf(attr.ty)}
    ELSE CASE attr.ty = "u64" -> {U64(5), U64(128)}
           [] attr.ty = "String" -> {<<104, 105>>}
           [] attr.ty = "Option<u64>" -> {None, Some(U64(5))}

\* the values of the struct with the fields `fields`
RECURSIVE StructInputs(_)
StructInputs(fields) ==
    IF fields = <<>> THEN {<<>>}
    ELSE {<<x>> \o rest : x \in FieldValueInputs(Head(fields)),
                          rest \in StructInputs(Tail(fields))}

\* Default::default() of the struct
StructDefault(fields) == [i \in 1..Len(fields) |-> DefaultOf(fields[i].ty)]

\* one more named field in the struct
DeclareStructField ==
    /\ phase = "declare" /\ Len(hist) < MaxStructFields
    /\ \E attr \in StructFieldInputs : hist' = Append(hist, attr)
    /\ UNCHANGED <<phase, big_endian, buf, pos, panic, ret, out, ev, calls, nread>>

\* ProtoWrite::write of a value of the struct, by the derived write, on a new buffer
WriteStruct ==
    /\ phase = "declare" /\ hist # <<>>
    /\ \E value \in StructInputs(hist) :
           /\ Set(write(DerivedStructWrite(derive_proto_write_struct(hist).val, value),
                        new(big_endian)))
           /\ calls' = <<Call("write", <<value>>)>>
    /\ phase' = "written"
    /\ UNCHANGED <<big_endian, hist, nread>>

\* read_fields(&mut Default::default(), None) of the written bytes, by the derived read;
\* ret is the struct afterwards
ReadStruct ==
    LET Read(arms) ==
            LET Then(m) ==
                    Set(IF Ok(m) THEN Return(m, DerivedStruct(arms, m.out, StructDefault(hist)))
                        ELSE m)
            IN  Then(read_fields(from_input(buf, big_endian), DerivedDispatch(arms), None))
    IN  /\ phase = "written" /\ panic = ""
        /\ Read(derive_proto_read_struct(hist).val)
        /\ calls' = Append(calls, Call("read_fields", <<>>))
        /\ phase' = "decoded"
        /\ UNCHANGED <<big_endian, hist, nread>>

NextDeriveStruct ==
    \/ DeclareStructField
    \/ WriteStruct
    \/ ReadStruct

SpecDeriveStruct == InitDerive /\ [][NextDeriveStruct]_vars

-----------------------------------------------------------------------------
(* A derived ProtoRead, of a struct or of an enum, reads a message of a     *)
(* peer: varint fields of tags the type may or may not have.                *)

\* the declarations of a field or a variant: no tag or the explicit tag 10, ignored or
\* not, a u64 or (for a variant) no payload
ItemInputs ==
    {Attr(tag, ignore, ty) : tag \in {None, Some(10)}, ignore \in BOOLEAN, ty \in {"", "u64"}}

\* the tags of the fields of the peer's message, in order
PeerMessages ==
    {<<a>> : a \in {0, 1, 7, 10, 11}} \cup {<<a, b>> : a, b \in {0, 1, 7, 10, 11}}

\* the bytes of the varint fields of the tags ts, each with the value 5
RECURSIVE PeerBytes(_)
PeerBytes(ts) == IF ts = <<>> THEN <<>> ELSE <<8 * Head(ts), 5>> \o PeerBytes(Tail(ts))

\* one more field or variant in the type
DeclareItem ==
    /\ phase = "declare" /\ Len(hist) < MaxStructFields
    /\ \E attr \in ItemInputs : hist' = Append(hist, attr)
    /\ UNCHANGED <<phase, big_endian, buf, pos, panic, ret, out, ev, calls, nread>>

\* read_fields, or read_message behind a length prefix, of the peer's message by the
\* derived read with the arms `arms`
ReadPeer(kind, derived) ==
    /\ phase = "declare" /\ Ok(derived)
    /\ \E ts \in PeerMessages, nested \in BOOLEAN :
           /\ Set(IF nested
                  THEN read_message(from_input(<<Len(PeerBytes(ts))>> \o PeerBytes(ts), big_endian),
                                    DerivedDispatch(derived.val))
                  ELSE read_fields(from_input(PeerBytes(ts), big_endian),
                                   DerivedDispatch(derived.val), None))
           /\ calls' = <<Call(IF nested THEN "read_message" ELSE "read_fields", <<kind, ts>>)>>
    /\ phase' = "decoded"
    /\ UNCHANGED <<big_endian, hist, nread>>

\* the type is a struct with the declared fields
ReadPeerAsStruct ==
    /\ \A i \in 1..Len(hist) : hist[i].ty # ""
    /\ ReadPeer("struct", derive_proto_read_struct(hist))

\* the type is an enum with the declared variants
ReadPeerAsEnum ==
    /\ phase = "declare"
    /\ ReadPeer("enum", derive_proto_read_enum(hist))

NextDerivePeer ==
    \/ DeclareItem
    \/ ReadPeerAsStruct
    \/ ReadPeerAsEnum

SpecDerivePeer == InitDerive /\ [][NextDerivePeer]_vars

-----------------------------------------------------------------------------
(* Claims about round trips through a write session and a read session (Spec) *)

\* one write call named op has been made, and the read calls named ops, in this order
RoundTrip(op, ops) ==
    /\ Len(hist) = 1
    /\ hist[1].op = op
    /\ phase = "read"
    /\ Len(calls) = Len(ops)
    /\ \A i \in 1..Len(ops) : calls[i].op = ops[i]

\* one write call named op has been made on the empty buffer, and nothing else
Written(op) == phase = "write" /\ Len(hist) = 1 /\ hist[1].op = op

\* C1: for every unsigned 64-bit v, write_varint(v) on an empty buffer followed by
\* decode_varint from cursor 0 returns v and leaves the cursor at the end of the bytes.
C1_VarintRoundTrip ==
    RoundTrip("write_varint", <<"decode_varint">>) =>
        /\ panic = ""
        /\ ret = hist[1].args[1]
        /\ pos = Len(buf)

\* C1, where it fails: 128 is written as the single byte 0x80, which decode_varint
\* takes for the first byte of a longer varint
C1_Lost128 ==
    /\ RoundTrip("write_varint", <<"decode_varint">>)
    /\ hist[1].args[1] = U64(128)
    /\ buf = <<128>>
    /\ panic = "index out of bounds"

\* C2: the bytes write_varint(v) appends (the same as write_varint_to_buffer's) carry 7
\* value bits each, least-significant group first, with the top bit set on every byte
\* but the last and clear on the last; they are 1 to 10 bytes, and 0 is the byte 0x00.
C2_VarintWireShape ==
    Written("write_varint") =>
        LET v == hist[1].args[1]
        IN  /\ buf = write_varint_to_buffer(<<>>, v)
            /\ Len(buf) \in 1..MAX_VARINT_LENGTH
            /\ \A i \in 1..Len(buf) : buf[i] % 128 = AsU8(Shr(v, 7 * (i - 1))) % 128
            /\ \A i \in 1..(Len(buf) - 1) : buf[i] >= 128
            /\ buf[Len(buf)] < 128
            /\ \A i \in 1..W : i > 7 * Len(buf) => v[i] = 0
            /\ v = U64(0) => buf = <<0>>

\* C2, where it fails: the last byte of the encoding of 16384 has its top bit set
C2_LastByteContinues ==
    /\ Written("write_varint")
    /\ hist[1].args[1] = U64(16384)
    /\ buf = <<128, 128>>

\* C3: for every tag t < 2^61 and every wire type w, write_field(t, w) writes the varint
\* of (t << 3) | code(w), and read_field on those bytes returns the tag t and the type w
\* and consumes exactly the bytes written.
C3_FieldKeyRoundTrip ==
    /\ Written("write_field") =>
           buf = write_varint_to_buffer(<<>>, BitOr(Shl(hist[1].args[1], 3),
                                                    U64(TypeCode(hist[1].args[2]))))
    /\ RoundTrip("write_field", <<"read_field">>) =>
           /\ panic = ""
           /\ ret = [tag |-> hist[1].args[1], type |-> hist[1].args[2]]
           /\ pos = Len(buf)

\* C3, where it fails: the key of (tag 16, Varint) is 128, written as the byte 0x80
C3_LostKey128 ==
    /\ RoundTrip("write_field", <<"read_field">>)
    /\ hist[1].args = <<U64(16), "Varint">>
    /\ buf = <<128>>
    /\ panic # ""

\* C9: write_bytes_field(tag, b) appends the key (tag, Bytes), the varint of len(b) and
\* the bytes of b; read_field then read_bytes returns b with the cursor right after the
\* payload; the same for write_string_field and read_string on valid UTF-8.
C9_LengthDelimitedRoundTrip ==
    /\ \A op \in {"write_bytes_field", "write_string_field"} :
           /\ Written(op) =>
                  buf = write_varint_to_buffer(<<>>, BitOr(Shl(hist[1].args[1], 3), U64(2)))
                            \o write_varint_to_buffer(<<>>, U64(Len(hist[1].args[2])))
                            \o hist[1].args[2]
           /\ RoundTrip(op, <<"read_field">>) =>
                  panic = "" /\ ret = [tag |-> hist[1].args[1], type |-> "Bytes"]
    /\ RoundTrip("write_bytes_field", <<"read_field", "read_bytes">>) =>
           panic = "" /\ ret = hist[1].args[2] /\ pos = Len(buf)
    /\ RoundTrip("write_string_field", <<"read_field", "read_string">>) =>
           panic = "" /\ ret = hist[1].args[2] /\ pos = Len(buf)

\* C9, where it fails: the length 128 is written as the byte 0x80, and read_bytes takes
\* the first bytes of the payload for the rest of the length
C9_LostLength128 ==
    /\ RoundTrip("write_bytes_field", <<"read_field", "read_bytes">>)
    /\ hist[1].args[1] = U64(1)
    /\ Len(hist[1].args[2]) = 128
    /\ buf[2] = 128
    /\ panic # ""

\* the varint encodings of the elements xs, one after the other
RECURSIVE Concat(_)
Concat(bs) == IF bs = <<>> THEN <<>> ELSE Head(bs) \o Concat(Tail(bs))

\* C10: write_packed_varint(tag, xs) appends the key (tag, Bytes), the varint of the
\* total byte length and the varints of the elements; read_field then read_packed
\* returns xs with the cursor at the end of the run; likewise write_packed_s_varint and
\* read_s_packed for signed elements.
C10_PackedRoundTrip ==
    /\ Written("write_packed_varint") =>
           LET run == Concat([i \in 1..Len(hist[1].args[3]) |->
                                  write_varint_to_buffer(<<>>, hist[1].args[3][i])])
           IN  buf = write_varint_to_buffer(<<>>, BitOr(Shl(hist[1].args[1], 3), U64(2)))
                         \o write_varint_to_buffer(<<>>, U64(Len(run))) \o run
    /\ (/\ RoundTrip("write_packed_varint", <<"read_field", "read_packed">>)
        /\ calls[2].args[1] = hist[1].args[2]) =>
           panic = "" /\ ret = hist[1].args[3] /\ pos = Len(buf)
    /\ (/\ RoundTrip("write_packed_s_varint", <<"read_field", "read_s_packed">>)
        /\ calls[2].args[1] = hist[1].args[2]) =>
           panic = "" /\ ret = hist[1].args[3] /\ pos = Len(buf)

\* C10, where it fails: the element 128 is written as the byte 0x80, and read_packed
\* reads past the end of the run
C10_LostElement128 ==
    /\ RoundTrip("write_packed_varint", <<"read_field", "read_packed">>)
    /\ calls[2].args[1] = "u64"
    /\ hist[1].args = <<U64(1), "u64", <<U64(128)>>>>
    /\ buf = <<10, 1, 128>>
    /\ panic # ""

-----------------------------------------------------------------------------
(* Claims about nested messages (SpecNested) *)

\* what the matching dispatch delivers for the write body t: every field's tag and value
RECURSIVE Delivered(_)
Delivered(t) ==
    [i \in 1..Len(t) |-> <<AsUsize(t[i].tag),
                           IF t[i].op = "write_message" THEN Delivered(t[i].x) ELSE t[i].x>>]

\* C12: write_message(tag, t) appends the key (tag, Bytes), the varint of the number of
\* bytes t.write produces on a fresh buffer, then those bytes; read_field followed by
\* read_message with the matching dispatch recovers every field of t and leaves the
\* cursor right after the nested payload, for payloads of any length and any depth.
C12_NestedMessageRoundTrip ==
    /\ Written("write_message") =>
           LET bytes == write(hist[1].args[2], new(big_endian)).buf
           IN  buf = write_varint_to_buffer(<<>>, BitOr(Shl(hist[1].args[1], 3), U64(2)))
                         \o write_varint_to_buffer(<<>>, U64(Len(bytes))) \o bytes
    /\ RoundTrip("write_message", <<"read_field">>) =>
           panic = "" /\ ret = [tag |-> hist[1].args[1], type |-> "Bytes"]
    /\ RoundTrip("write_message", <<"read_field", "read_message">>) =>
           panic = "" /\ out = Delivered(hist[1].args[2]) /\ pos = Len(buf)

\* C12, where it fails: the message is 128 bytes long, its length is written as the
\* byte 0x80, and read_message takes the key of the first field for the rest of the length
C12_LostLength128 ==
    /\ RoundTrip("write_message", <<"read_field", "read_message">>)
    /\ hist[1].args[1] = U64(1)
    /\ Len(buf) = 130
    /\ buf[2] = 128
    /\ panic # ""

-----------------------------------------------------------------------------
(* Claims about fixed-width values (SpecFixed) *)

\* the first n little-endian bytes of the word v
LeBytes(v, n) == [k \in 1..n |-> AsU8(Shr(v, 8 * (k - 1)))]

\* C13: write_fixed of a 4-byte value appends exactly 4 bytes and of an 8-byte value
\* exactly 8, the little-endian bytes of the value's bit pattern on a little-endian and
\* on a big-endian host alike (-5_i32 is FB FF FF FF, 5_u32 is 05 00 00 00); read_fixed
\* of the same type returns the value and advances the cursor by that width.
C13_FixedWireFormat ==
    /\ Written("write_fixed") =>
           LET T == hist[1].args[1]
               x == hist[1].args[2]
           IN  /\ Len(buf) = size_of(T)
               /\ buf = LeBytes(x, size_of(T))
               /\ (T = "i32" /\ x = from_u64("i32", Neg(U64(5)))) => buf = <<251, 255, 255, 255>>
               /\ (T = "u32" /\ x = U64(5)) => buf = <<5, 0, 0, 0>>
    /\ (RoundTrip("write_fixed", <<"read_fixed">>)
           /\ size_of(calls[1].args[1]) = size_of(hist[1].args[1])) =>
           /\ panic = ""
           /\ ret = hist[1].args[2]
           /\ pos = size_of(hist[1].args[1])

\* C13, where it fails: on a big-endian host 5_u32 is written as 00 00 00 00 and read
\* back as 0
C13_BigEndianLost ==
    /\ RoundTrip("write_fixed", <<"read_fixed">>)
    /\ big_endian
    /\ hist[1].args = <<"u32", U64(5)>>
    /\ calls[1].args = <<"i32">>
    /\ buf = <<0, 0, 0, 0>>
    /\ panic = ""
    /\ ret = U64(0)

-----------------------------------------------------------------------------
(* Claims about signed varint fields (SpecSigned) *)

\* C18: for every signed width T and every value v of T (63, 64, -64, -65, T::MIN and
\* T::MAX among them), write_s_varint_field(tag, v) followed by read_field and
\* read_s_varint::<T> returns v; when the decoded value is not representable in the
\* requested type, read_s_varint aborts with "read_s_varint: Invalid conversion" and
\* never returns a truncated value.
C18_SignedFieldRoundTrip ==
    RoundTrip("write_s_varint_field", <<"read_field", "read_s_varint">>) =>
        LET T == hist[1].args[2]
            v == hist[1].args[3]
            R == calls[2].args[1]
        IN  /\ R = T => (panic = "" /\ ret = v /\ pos = Len(buf))
            /\ try_from_i64(R, into_i64(T, v)).ok => (panic = "" /\ into_i64(R, ret) = into_i64(T, v))
            /\ ~try_from_i64(R, into_i64(T, v)).ok => panic = "read_s_varint: Invalid conversion"

\* C18, where it fails: 64_i8 is written as the key and the single byte 0x80, and
\* read_s_varint reads past the end of the buffer
C18_Lost64 ==
    /\ RoundTrip("write_s_varint_field", <<"read_field", "read_s_varint">>)
    /\ hist[1].args = <<U64(1), "i8", U64(64)>>
    /\ calls[2].args = <<"i8">>
    /\ buf = <<8, 128>>
    /\ panic # ""
    /\ panic # "read_s_varint: Invalid conversion"

-----------------------------------------------------------------------------
(* Claims about write sessions of several calls (SpecSession) *)

\* the step is a call of op, recorded as the last entry of hist'
CallStep(op) == Len(hist') = Len(hist) + 1 /\ hist'[Len(hist')].op = op

\* C14: write_fixed_field(tag, v) appends the key with wire type Fixed32 when v is 4
\* bytes wide and Fixed64 when it is 8 bytes wide, followed by exactly that many value
\* bytes; for a value 1 or 2 bytes wide it aborts with "Invalid fixed type" and the
\* buffer contents and the cursor are as they were before the call.
C14_FixedFieldTyping ==
    [][CallStep("write_fixed_field") =>
          LET tag == hist'[Len(hist')].args[1]
              T == hist'[Len(hist')].args[2]
              x == hist'[Len(hist')].args[3]
              type == IF size_of(T) = 4 THEN "Fixed32" ELSE "Fixed64"
              key == write_field(new(big_endian), tag, type).buf
          IN  IF size_of(T) \in {4, 8}
              THEN /\ panic' = ""
                   /\ pos' = pos
                   /\ Len(buf') = Len(buf) + Len(key) + size_of(T)
                   /\ SubSeq(buf', 1, Len(buf) + Len(key)) = buf \o key
                   /\ TypeFromU8(buf'[Len(buf) + 1]) = type
                   /\ SubSeq(buf', Len(buf) + Len(key) + 1, Len(buf')) =
                          write_fixed(new(big_endian), T, x).buf
              ELSE /\ panic' = "Invalid fixed type"
                   /\ buf' = buf
                   /\ pos' = pos]_vars

\* C14, the abort on a buffer that already holds a field: write_fixed_field(1, 5_i32)
\* then write_fixed_field(1, 5_u8)
C14_AbortKeepsBuffer ==
    /\ Len(hist) = 2
    /\ hist[1].args = <<U64(1), "i32", U64(5)>>
    /\ hist[2].op = "write_fixed_field"
    /\ hist[2].args = <<U64(1), "u8", U64(5)>>
    /\ panic = "Invalid fixed type"
    /\ ~big_endian
    /\ buf = <<13, 5, 0, 0, 0>>
    /\ pos = 0

\* the bytes the write call c appends to an empty buffer
AppendedBy(c) ==
    CASE c.op = "write_fixed_field" ->
             write_fixed_field(new(big_endian), c.args[1], c.args[2], c.args[3]).buf
      [] c.op = "write_varint" -> write_varint(new(big_endian), c.args[1]).buf
      [] c.op = "write_bytes_field" ->
             write_bytes_field(new(big_endian), c.args[1], c.args[2]).buf

\* the bytes appended by the calls h since the last take, in call order
RECURSIVE Pending(_)
Pending(h) ==
    IF h = <<>> \/ h[Len(h)].op = "take" THEN <<>>
    ELSE Pending(SubSeq(h, 1, Len(h) - 1)) \o AppendedBy(h[Len(h)])

\* C16: after any sequence of write operations on a buffer created by new(), take()
\* returns the concatenation, in call order, of the bytes those operations appended and
\* leaves the buffer empty (len() is 0, is_empty() is true); a second take() with no
\* write in between returns the empty byte sequence.
C16_TakeReturnsAll ==
    /\ (phase = "write" /\ panic = "") => buf = Pending(hist)
    /\ (phase = "write" /\ hist # <<>> /\ hist[Len(hist)].op = "take") =>
           /\ panic = ""
           /\ ret = Pending(SubSeq(hist, 1, Len(hist) - 1))
           /\ buf = <<>>
           /\ len(M) = 0
           /\ is_empty(M)
           /\ pos = 0
           /\ (Len(hist) >= 2 /\ hist[Len(hist) - 1].op = "take") => ret = <<>>

\* C16, the bytes of two writes returned by one take
C16_TakenBoth ==
    /\ phase = "write"
    /\ Len(hist) = 3
    /\ hist[3].op = "take"
    /\ hist[1].op = "write_varint" /\ hist[2].op = "write_bytes_field"
    /\ ret = <<172, 2, 18, 2, 1, 2>>
    /\ is_empty(M)

-----------------------------------------------------------------------------
(* Claims about read sessions on given input bytes (SpecInput) *)

\* the last read call made on the given input
LastCall == calls[Len(calls)]

\* the wire-type code of the key that starts at offset at: the low 3 bits of its first byte
KeyCode(at) == buf[at + 1] % 8

\* the varint that starts at offset at ends inside the buffer (or is 10 bytes long)
Decodable(at) ==
    \/ \E j \in (at + 1)..Len(buf) : j <= at + MAX_VARINT_LENGTH /\ buf[j] < 128
    \/ Len(buf) >= at + MAX_VARINT_LENGTH

\* the end offset of a read_fields or read_message call c
EndOffset(c) ==
    IF c.op = "read_fields"
    THEN IF c.args[2] = None THEN Len(buf) ELSE c.args[2][1]
    ELSE LET d == decode_varint(set_pos(from_input(buf, big_endian), c.at))
         IN  AsUsize(d.val) + d.pos

\* C5: read_fields and read_message return normally only with the cursor exactly at
\* the end offset (the buffer length, the given end, or the end of the length-prefixed
\* message); a field that runs past the end offset is a fatal error.
C5_ExactLanding ==
    (/\ phase = "read" /\ hist = <<>> /\ calls # <<>>
     /\ LastCall.op \in {"read_fields", "read_message"}
     /\ panic = ""
     /\ LastCall.at <= EndOffset(LastCall))
    => pos = EndOffset(LastCall)

\* C5, where it fails: a nested message (length prefix 1) whose only byte is the key of
\* a Fixed32 field returns normally with the cursor beyond the end of the message
C5_Overrun ==
    /\ phase = "read" /\ hist = <<>> /\ calls # <<>>
    /\ LastCall.op = "read_message"
    /\ LastCall.at = 0
    /\ panic = ""
    /\ pos > EndOffset(LastCall)

\* C6: on arbitrary input bytes, after any read call that returns normally the cursor
\* is at most the buffer length.
C6_CursorWithinBuffer ==
    (phase = "read" /\ hist = <<>> /\ calls # <<>> /\ panic = "") => pos <= Len(buf)

\* C6, where it fails: skip of a fixed-width field returns normally beyond the buffer
C6_SkipBeyond ==
    /\ phase = "read" /\ hist = <<>> /\ calls # <<>>
    /\ LastCall.op = "skip"
    /\ panic = ""
    /\ pos > Len(buf)

\* C7: read_field returns one of the five wire types, the one the low 3 bits of the key
\* encode, and aborts with "Invalid value for Type" when they are 3, 4 or 6; read_fields
\* invokes the dispatch (and the fallback skip) only for keys of a valid wire type, and
\* on a key of a reserved one aborts before the dispatch is invoked for that key.
C7_InvalidWireType ==
    (phase = "read" /\ hist = <<>> /\ calls # <<>>) =>
        /\ (LastCall.op = "read_field" /\ Decodable(LastCall.at)) =>
               IF KeyCode(LastCall.at) \in {3, 4, 6}
               THEN panic = "Invalid value for Type" /\ pos > LastCall.at
               ELSE /\ panic = ""
                    /\ ret.type \in Type
                    /\ TypeCode(ret.type) = KeyCode(LastCall.at)
        /\ (LastCall.op \in {"read_fields", "read_message"}) =>
               /\ \A i \in 1..Len(ev) : /\ KeyCode(ev[i].key) \in {0, 1, 2, 5, 7}
                                        /\ TypeCode(ev[i].type) = KeyCode(ev[i].key)
               /\ panic = "Invalid value for Type" => \A i \in 1..Len(ev) : ev[i].at < pos
        /\ (/\ LastCall.op = "read_fields"
            /\ LastCall.at < EndOffset(LastCall)
            /\ Decodable(LastCall.at)
            /\ KeyCode(LastCall.at) \in {3, 4, 6}) =>
               panic = "Invalid value for Type" /\ ev = <<>> /\ out = <<>>

\* C7, reached: read_fields has dispatched a field of a valid wire type and then aborts
\* on a key of a reserved one
C7_AbortAfterValidField ==
    /\ phase = "read" /\ hist = <<>> /\ calls # <<>>
    /\ LastCall.op = "read_fields"
    /\ panic = "Invalid value for Type"
    /\ Len(ev) >= 1
    /\ KeyCode(pos - 1) \in {3, 4, 6}

\* C11: read_packed and read_s_packed return normally only with the cursor exactly at
\* the end offset computed from the length prefix; when the varint of the last element
\* extends beyond the declared run they abort instead of returning a result.
C11_PackedMisalignment ==
    (/\ phase = "read" /\ hist = <<>> /\ calls # <<>>
     /\ LastCall.op \in {"read_packed", "read_s_packed"}
     /\ panic = "")
    => pos = EndOffset(LastCall)

\* C11, where it fails: on [1, 0x80, 0x01] the run is declared 1 byte long, the element
\* takes 2 bytes, and read_packed returns [128] with the cursor one byte past the run
C11_Overshoot ==
    /\ phase = "read" /\ hist = <<>> /\ calls # <<>>
    /\ LastCall.op = "read_packed"
    /\ LastCall.at = 0
    /\ buf = <<1, 128, 1>>
    /\ panic = ""
    /\ ret = <<U64(128)>>
    /\ pos = 3
    /\ EndOffset(LastCall) = 2

-----------------------------------------------------------------------------
(* Claims about messages with unknown fields (SpecMsg) *)

\* the fields of fs whose tag the dispatch t knows
RECURSIVE KnownOf(_, _)
KnownOf(fs, t) ==
    IF fs = <<>> THEN <<>>
    ELSE (IF Head(fs).tag \in DOMAIN t.arms THEN <<Head(fs)>> ELSE <<>>) \o KnownOf(Tail(fs), t)

\* the bytes of the fields fs, in order
RECURSIVE BytesOf(_)
BytesOf(fs) == IF fs = <<>> THEN <<>> ELSE Head(fs).bytes \o BytesOf(Tail(fs))

\* C4: on a well-formed message and a dispatch that consumes the values of the tags it
\* knows and nothing else, read_fields completes without error with the cursor at the
\* end, and delivers for the known tags the values of the fields, the same as on the
\* buffer with the unknown fields removed, whatever the wire types of the unknown fields
\* and wherever they stand.
C4_ForwardCompatible ==
    phase = "decoded" =>
        LET t == calls[1].args[1]
            known == KnownOf(hist, t)
            alone == read_fields(from_input(BytesOf(known), big_endian), t, None)
        IN  /\ buf = BytesOf(hist)
            /\ panic = ""
            /\ pos = Len(buf)
            /\ out = [i \in 1..Len(known) |-> <<known[i].tag, known[i].value>>]
            /\ alone.panic = ""
            /\ out = alone.out

\* C4, reached: a known field between an unknown Fixed32 field and an unknown
\* length-delimited field has been delivered
C4_KnownBetweenUnknown ==
    /\ phase = "decoded"
    /\ Len(hist) = 3
    /\ hist[1].tag = 4 /\ hist[1].type = "Fixed32"
    /\ hist[2].tag = 2
    /\ hist[3].tag = 6 /\ hist[3].type = "Bytes"
    /\ DOMAIN calls[1].args[1].arms = {2}
    /\ out = <<<<2, <<120>>>>>>
    /\ pos = Len(buf)

-----------------------------------------------------------------------------
(* Claims about skipping (SpecSkip) *)

\* the number of bytes of the varint that starts after offset at of b
VarintLen(b, at) ==
    CHOOSE n \in 1..MAX_VARINT_LENGTH :
        b[at + n] < 128 /\ \A k \in 1..(n - 1) : b[at + k] >= 128

\* the number of bytes of the value of wire type t that starts after offset at of b
ValueLen(b, at, t) ==
    CASE t = "Varint" -> VarintLen(b, at)
      [] t = "Fixed32" -> 4
      [] t = "Fixed64" -> 8
      [] t = "Bytes" -> VarintLen(b, at) + AsUsize(decode_varint(Machine(b, at, FALSE)).val)
      [] t = "None" -> 0

\* C15: after read_field has decoded the key of a well-formed field, skip of the key's
\* type advances the cursor by exactly the length of the field's value (one varint for
\* Varint, 4 bytes for Fixed32, 8 for Fixed64, the length prefix plus the payload for
\* Bytes, nothing for None) and leaves the buffer as it was, so that the next read_field
\* returns the key of the following field.
C15_SkipOneValue ==
    /\ (phase = "read" /\ Len(calls) >= 2 /\ calls[1].op = "read_field" /\ calls[2].op = "skip"
           /\ Len(calls) = 2) =>
           /\ panic = ""
           /\ calls[2].args[1] = hist[1].type
           /\ pos - calls[2].at = ValueLen(buf, calls[2].at, hist[1].type)
           /\ pos = Len(hist[1].bytes)
           /\ buf = BytesOf(hist)
           /\ Len(hist) >= 2 =>
                  LET next == read_field(M)
                  IN  /\ Ok(next)
                      /\ next.val = [tag |-> U64(hist[2].tag), type |-> hist[2].type]
    /\ (phase = "read" /\ Len(calls) = 3 /\ calls[1].op = "read_field" /\ calls[2].op = "skip"
           /\ calls[3].op = "read_field" /\ Len(hist) >= 2) =>
           /\ panic = ""
           /\ ret = [tag |-> U64(hist[2].tag), type |-> hist[2].type]
           /\ buf = BytesOf(hist)

\* C15, a length-delimited value skipped in front of a field with a two-byte key
C15_SkippedBytes ==
    /\ phase = "read"
    /\ buf = <<50, 2, 8, 5, 128, 1, 9>>
    /\ Len(calls) = 2
    /\ calls[2].op = "skip" /\ calls[2].args = <<"Bytes">>
    /\ calls[2].at = 1
    /\ pos = 4
    /\ panic = ""

-----------------------------------------------------------------------------
(* Claims about BitCast (SpecCast) *)

\* C17: for every primitive type implementing BitCast (u8, i8, u16, i16, u32, i32, u64,
\* i64, usize, isize, bool, and f32 and f64 by bit pattern) and every value v of it, the
\* negative ones and the minimum and maximum of each signed width among them,
\* from_u64(to_u64(v)) = v; for bool, to_u64 maps true to 1 and false to 0 and from_u64
\* maps every nonzero word to true.
C17_BitCastRoundTrip ==
    /\ (phase = "cast" /\ calls = <<"to_u64", "from_u64">>) => ret = hist[1].w
    /\ (phase = "cast" /\ calls = <<"from_u64", "to_u64", "from_u64">>) =>
           ret = FromWord(hist[1], hist[1].w)
    /\ (phase = "cast" /\ hist[1].T = "bool" /\ calls = <<"to_u64">>) =>
           ret = (IF hist[1].w = U64(1) THEN U64(1) ELSE U64(0))
    /\ (phase = "cast" /\ hist[1].T = "bool" /\ calls = <<"from_u64">>) =>
           ret = (IF hist[1].w = U64(0) THEN U64(0) ELSE U64(1))

\* C17, i16::MIN through impl_bitcast!'s sign-extending to_u64 and back
C17_MinI16 ==
    /\ phase = "cast"
    /\ hist[1].impl = "rust-core" /\ hist[1].T = "i16"
    /\ hist[1].w = U64Bit(15)
    /\ calls = <<"to_u64", "from_u64">>
    /\ ret = U64Bit(15)

-----------------------------------------------------------------------------
(* Claims about the derive macros on a struct (SpecDerive) *)

\* the fields of the declaration that are not ignored, in declaration order
Kept(fields) == SelectSeq([i \in 1..Len(fields) |-> i], LAMBDA i : ~fields[i].ignore)

\* the tag of field i by the rule: the tag of the nearest field at or before i that has
\* an explicit tag and is not ignored, plus the number of fields after it up to i that
\* are not ignored; with no such field, the number of fields before i that are not
\* ignored
RuleTag(fields, i) ==
    LET explicit == {j \in 1..i : ~fields[j].ignore /\ fields[j].tag # None}
        counted(from) == Cardinality({k \in from..i : ~fields[k].ignore})
    IN  IF explicit = {} THEN counted(1) - 1
        ELSE fields[CHOOSE j \in explicit : \A k \in explicit : k <= j].tag[1]
                 + counted((CHOOSE j \in explicit : \A k \in explicit : k <= j) + 1)

\* C19: derived ProtoWrite and ProtoRead assign tags to the fields of a struct in
\* declaration order with a counter that starts at 0: a field with pbf(tag = n) gets n
\* and sets the counter to n + 1, a field without a tag gets the counter and increments
\* it, and a pbf(ignore) field gets no tag, has no write statement and no read arm, and
\* does not advance the counter; write and read give every other field the same tag.
C19_DerivedStructTags ==
    /\ (phase = "declare" /\ panic = "" /\ \E i \in 1..Len(calls) : calls[i] = "ProtoWrite") =>
           /\ Len(out) = Len(Kept(hist))
           /\ \A k \in 1..Len(out) :
                  /\ out[k].item = Kept(hist)[k]
                  /\ out[k].tag = RuleTag(hist, out[k].item)
    /\ (phase = "declare" /\ panic = "" /\ \E i \in 1..Len(calls) : calls[i] = "ProtoRead") =>
           /\ Len(ev) = Len(Kept(hist))
           /\ \A k \in 1..Len(ev) :
                  /\ ev[k].item = Kept(hist)[k]
                  /\ ev[k].tag = RuleTag(hist, ev[k].item)
    /\ (phase = "declare" /\ panic = "" /\ Len(calls) = 2) =>
           /\ Len(out) = Len(ev)
           /\ \A k \in 1..Len(out) : out[k].item = ev[k].item /\ out[k].tag = ev[k].tag

\* C19, a struct with a field of explicit tag 10, an ignored field and a field without a
\* tag: the tags are 10 and 11 in the write and in the read
C19_IgnoredBetween ==
    /\ phase = "declare"
    /\ hist = <<Attr(Some(10), FALSE, "u64"), Attr(None, TRUE, "u64"), Attr(None, FALSE, "u64")>>
    /\ Len(calls) = 2
    /\ panic = ""
    /\ Len(out) = 2 /\ out[1].tag = 10 /\ out[2].tag = 11 /\ out[2].item = 3
    /\ Len(ev) = 2 /\ ev[1].tag = 10 /\ ev[2].tag = 11 /\ ev[2].item = 3

-----------------------------------------------------------------------------
(* Claims about the derive macros on an enum (SpecDeriveEnum) *)

\* C20: a variant with no payload of a derived enum is written as exactly one field key
\* with wire type None and no value bytes, and the tag in that key is the tag that the
\* derived read maps to that variant, when the tag is auto-assigned and when it is given
\* with pbf(tag = n).
C20_PayloadlessVariant ==
    (phase \in {"written", "decoded"} /\ hist[calls[1].args[1]].ty = "") =>
        LET i == calls[1].args[1]
            key == read_field(from_input(buf, big_endian))
            arms == derive_proto_read_enum(hist).val
        IN  /\ Ok(key)
            /\ key.pos = Len(buf)
            /\ key.val.type = "None"
            /\ \E k \in 1..Len(arms) : arms[k].item = i /\ U64(arms[k].tag) = key.val.tag

\* C20, where it fails: the only variant is declared with pbf(tag = 5) and no payload;
\* its key is written with tag 0, which the derived read does not know
C20_ExplicitTagLost ==
    /\ phase = "decoded"
    /\ hist = <<Attr(Some(5), FALSE, "")>>
    /\ calls[1].args = <<1, <<>>>>
    /\ buf = <<7>>
    /\ panic = "unknown tag"

\* C21: for every value of an enum deriving ProtoRead and ProtoWrite, unit variants
\* declared at any position and Option payloads with Some and None among them, the
\* derived write of the value followed by read_fields(&mut default, None) on the bytes
\* yields a value equal to the original.
C21_DerivedEnumRoundTrip ==
    phase = "decoded" =>
        /\ panic = ""
        /\ ret = Value(calls[1].args[1], calls[1].args[2])

\* C21, where it fails: in `enum E { #[default] A, B(u64) }` the variants A and B both
\* get tag 0, and B(5) is read back as A
C21_PayloadReadAsUnit ==
    /\ phase = "decoded"
    /\ hist = <<Attr(None, FALSE, ""), Attr(None, FALSE, "u64")>>
    /\ calls[1].args = <<2, U64(5)>>
    /\ buf = <<0, 5>>
    /\ panic = ""
    /\ ret = Value(1, <<>>)

-----------------------------------------------------------------------------
(* Claims about zigzag and zagzig (SpecFn) *)

\* C8: zagzig(zigzag(v)) = v for every signed 64-bit v and zigzag(zagzig(u)) = u for
\* every unsigned 64-bit u; zigzag(v) is 2v for v >= 0 and -2v - 1 for v < 0;
\* zigzag(0) = 0 and zigzag(-5) = 9.
C8_ZigzagRoundTrip ==
    phase = "fn" =>
        LET v == hist[1]
        IN  /\ calls = <<"zigzag", "zagzig">> => ret = v
            /\ calls = <<"zagzig", "zigzag">> => ret = v
            /\ calls = <<"zigzag">> =>
                   /\ v[W] = 0 => ret = WrappingAdd(v, v)
                   /\ v[W] = 1 => ret = WrappingAdd(Neg(WrappingAdd(v, v)), Neg(U64(1)))
                   /\ v = U64(0) => ret = U64(0)
                   /\ v = Neg(U64(5)) => ret = U64(9)
                   /\ \A u \in WordInputs : zigzag(u) = ret => u = v

\* C8, reached: i64::MIN has gone through zigzag (to u64::MAX) and back
C8_MinRoundTrip ==
    /\ phase = "fn"
    /\ hist[1] = U64Bit(63)
    /\ calls = <<"zigzag", "zagzig">>
    /\ ret = U64Bit(63)


-----------------------------------------------------------------------------
(* Claims about values of derived structs (SpecDeriveStruct) *)

\* C22: a struct value written by the derived write and read back by read_fields into
\* the default struct is equal to the original, with the cursor at the end of the buffer
C22_DerivedStructRoundTrip ==
    (phase = "decoded" /\ calls[1].op = "write")
        => (panic = "" /\ ret = calls[1].args[1] /\ pos = Len(buf))

\* the struct { a: u64 } with a = 128 is written as 00 80, and reading it back aborts
C22_Lost128 ==
    /\ phase = "decoded"
    /\ hist = <<Attr(None, FALSE, "u64")>>
    /\ calls[1].args[1] = <<U64(128)>>
    /\ buf = <<0, 128>>
    /\ panic # ""


\* the bytes the derived write of a non-optional field of the inner type, with the tag
\* and the attributes of the statement st and the value x, appends
PlainFieldBytes(st, attr, x) ==
    write(derived_write_field(field_type_to_write_method(st.item, "u64", st.tag, attr)[1], x),
          new(FALSE)).buf

\* the bytes of the struct value when every Option field that is None appends nothing and
\* every Option field that is Some(x) appends the bytes of the non-optional field
RECURSIVE SparseBytes(_, _, _)
SparseBytes(stmts, fields, value) ==
    LET Field(st) ==
            IF fields[st.item].ty = "Option<u64>"
            THEN (IF value[st.item] = None THEN <<>>
                  ELSE PlainFieldBytes(st, fields[st.item], value[st.item][1]))
            ELSE write(derived_write_field(st, value[st.item]), new(FALSE)).buf
    IN  IF stmts = <<>> THEN <<>>
        ELSE Field(Head(stmts)) \o SparseBytes(Tail(stmts), fields, value)

\* C23: the derived write of an Option field that is None appends no bytes, and of one
\* that is Some(x) appends exactly the bytes of a non-optional field with the same tag,
\* attributes and value x
C23_AbsentEmitsNothing ==
    (phase = "written" /\ calls[1].op = "write")
        => (panic = ""
            /\ buf = SparseBytes(derive_proto_write_struct(hist).val, hist, calls[1].args[1]))

\* the struct { a: Option<u64>, b: Option<u64> } with a = None and b = Some(5) is written
\* as the field b alone: key 08, value 05
C23_NoneThenSome ==
    /\ phase = "written"
    /\ hist = <<Attr(None, FALSE, "Option<u64>"), Attr(None, FALSE, "Option<u64>")>>
    /\ calls[1].args[1] = <<None, Some(U64(5))>>
    /\ buf = <<8, 5>>


-----------------------------------------------------------------------------
(* Claims about the derived BitCast of an enum (SpecBitCastEnum) *)

\* the variant declared with the discriminant whose word is val, if there is one
Declared(val) == {i \in 1..Len(hist) : U64(hist[i].discriminant[1]) = val}

\* C24: to_u64 of a variant is its declared discriminant, from_u64 of a declared
\* discriminant is the variant declared with it, so from_u64 of to_u64 of a variant is
\* that variant, and from_u64 of any other word aborts with "Invalid enum value"
C24_DerivedBitCast ==
    (phase = "derived" /\ ev # <<>> /\ calls # <<>>) =>
        LET c == calls[Len(calls)]
        IN  /\ c.op = "to_u64" =>
                (panic = "" /\ ret = U64(hist[c.args[1]].discriminant[1]))
            /\ (c.op = "from_u64" /\ Declared(c.args[1]) # {}) =>
                (panic = "" /\ Declared(c.args[1]) = {ret})
            /\ (c.op = "from_u64" /\ Declared(c.args[1]) = {}) =>
                (panic = "Invalid enum value")
            /\ (c.op = "from_u64" /\ Len(calls) = 2 /\ c.args[1] = U64(hist[calls[1].args[1]].discriminant[1])) =>
                (panic = "" /\ ret = calls[1].args[1])

\* enum TestEnum { A = 3, B = 1, C = 2 }: from_u64(to_u64(A)) is A
C24_TestEnum ==
    /\ phase = "derived"
    /\ hist = <<Variant(Some(3), TRUE), Variant(Some(1), TRUE), Variant(Some(2), TRUE)>>
    /\ Len(calls) = 2
    /\ calls[1].args = <<1>>
    /\ calls[2].args = <<U64(3)>>
    /\ ret = 1


-----------------------------------------------------------------------------
(* Claims about input that ends early (SpecTruncated) *)

\* every byte of b after offset at has the continuation bit set: the varint that starts
\* there is not complete when b ends
Unfinished(b, at) == \A i \in (at + 1)..Len(b) : b[i] >= 128

\* the length prefix that starts after offset at of b is larger than the number of
\* bytes that follow it
PrefixTooLarge(b, at) ==
    AsUsize(decode_varint(Machine(b, at, FALSE)).val) > Len(b) - (at + VarintLen(b, at))

\* C25: decode_varint, read_fixed and read_bytes abort when the buffer ends before the
\* value is complete: a varint whose last available byte has the continuation bit set
\* (or a cursor at the end), fewer than 4 or 8 bytes for a fixed value, a length prefix
\* larger than the number of bytes remaining
C25_TruncatedIsFatal ==
    (phase = "read" /\ hist # <<>> /\ calls # <<>>) =>
        LET c == calls[Len(calls)]
        IN  /\ (c.op = "decode_varint" /\ Unfinished(buf, c.at)) => panic # ""
            /\ (c.op = "read_fixed" /\ Len(buf) - c.at < size_of(c.args[1])) => panic # ""
            /\ (c.op = "read_bytes" /\ (Unfinished(buf, c.at) \/ PrefixTooLarge(buf, c.at)))
                   => panic # ""

\* on a target with a 4-byte usize, read_bytes of the length prefix 2^32 followed by
\* nothing returns an empty vector
C25_Prefix2Pow32 ==
    /\ phase = "read"
    /\ hist = <<[pw |-> 4]>>
    /\ buf = <<128, 128, 128, 128, 16>>
    /\ Len(calls) = 1 /\ calls[1].op = "read_bytes"
    /\ panic = "" /\ ret = <<>> /\ pos = 5


-----------------------------------------------------------------------------
(* Claims about the dispatch protocol of read_fields (SpecMsg) *)

\* the offset in the message at which its field i starts
Offset(fs, i) == Len(BytesOf(SubSeq(fs, 1, i - 1)))

\* the dispatch t, invoked with the tag of field i at the position after its key, returns
\* with the cursor moved
Moved(fs, i, t) ==
    LET at == Offset(fs, i) + VarintLen(BytesOf(fs), Offset(fs, i))
    IN  read(t, U64(fs[i].tag), [from_input(BytesOf(fs), FALSE) EXCEPT !.pos = at]).pos # at

\* the trace the protocol prescribes for the fields from i on: the dispatch is invoked
\* with the tag of the field after the key, and the skip follows if and only if the
\* dispatch did not move the cursor
RECURSIVE Protocol(_, _, _)
Protocol(fs, i, t) ==
    LET key == Offset(fs, i)
        at == key + VarintLen(BytesOf(fs), key)
    IN  IF i > Len(fs) THEN <<>>
        ELSE <<Event("read", U64(fs[i].tag), fs[i].type, key, at)>>
                 \o (IF Moved(fs, i, t) THEN <<>>
                     ELSE <<Event("skip", U64(fs[i].tag), fs[i].type, key, at)>>)
                 \o Protocol(fs, i + 1, t)

\* the entries of the trace for the keys of the message itself, without those of the
\* nested messages
TopLevel(trace, fs) ==
    LET AtField(e) == \E i \in 1..Len(fs) : e.key = Offset(fs, i)
    IN  SelectSeq(trace, AtField)

\* C26: read_fields invokes the dispatch exactly once for every field key, with the key's
\* tag, in the order of the fields, after the key; the fallback skip is applied if and
\* only if the dispatch returned with the cursor where it was after the key
C26_DispatchProtocol ==
    phase = "decoded" => TopLevel(ev, hist) = Protocol(hist, 1, calls[1].args[1])

\* a field the dispatch reads, a field whose arm reads nothing and a field the dispatch
\* does not know: one invocation each, and a skip after the second and the third
C26_ReadUnitUnknown ==
    /\ phase = "decoded"
    /\ calls[1].args[1] = Tags1And2
    /\ Len(hist) = 3
    /\ hist[1].tag = 2 /\ hist[2].tag = 7 /\ hist[3].tag = 1
    /\ Len(ev) = 4
    /\ ev[1].e = "read" /\ ev[2].e = "read" /\ ev[3].e = "skip" /\ ev[4].e = "read"


-----------------------------------------------------------------------------
(* Claims about a derived read of a peer's message (SpecDerivePeer) *)

\* the tags assigned to the non-ignored fields or variants of the declared type
AssignedTags(kind) ==
    LET Tags(arms) == {arms[k].tag : k \in 1..Len(arms)}
    IN  Tags(IF kind = "struct" THEN derive_proto_read_struct(hist).val
             ELSE derive_proto_read_enum(hist).val)

\* the places in the message ts of the fields whose tag is not in tags
UnknownAt(ts, tags) == {i \in 1..Len(ts) : ts[i] \notin tags}

-----------------------------------------------------------------------------
(* Claims about the tags of the variants of a derived enum (SpecDeriveEnum) *)

\* the tags of the statements or arms generated for the variant i
TagsOfVariant(arms, i) == {arms[k].tag : k \in {n \in 1..Len(arms) : arms[n].item = i}}

\* C28: in an enum without explicit tags any two distinct variants get distinct tags,
\* in the derived write and in the derived read, wherever the variants without payload
\* are declared
C28_DistinctVariantTags ==
    (\A i \in 1..Len(hist) : hist[i].tag = None) =>
        \A i, j \in 1..Len(hist) :
            i < j =>
                /\ TagsOfVariant(derive_proto_write_enum(hist).val, i)
                       \cap TagsOfVariant(derive_proto_write_enum(hist).val, j) = {}
                /\ TagsOfVariant(derive_proto_read_enum(hist).val, i)
                       \cap TagsOfVariant(derive_proto_read_enum(hist).val, j) = {}

\* enum E { A, B, C(u64) }: the value C(5) is written with the key of tag 0, the tag of
\* A and of B as well
C28_UnitsShareTag ==
    /\ phase = "written"
    /\ hist = <<Attr(None, FALSE, ""), Attr(None, FALSE, ""), Attr(None, FALSE, "u64")>>
    /\ calls[1].args = <<3, U64(5)>>
    /\ buf = <<0, 5>>
    /\ TagsOfVariant(derive_proto_read_enum(hist).val, 1) = {0}
    /\ TagsOfVariant(derive_proto_read_enum(hist).val, 2) = {0}
    /\ TagsOfVariant(derive_proto_read_enum(hist).val, 3) = {0}


-----------------------------------------------------------------------------
(* Claims about what writes and reads leave alone (SpecFrame) *)

\* C29: every write operation leaves the bytes already in the buffer as an unchanged
\* prefix and leaves the cursor unchanged; every read operation and skip leaves the
\* bytes and the length of the buffer unchanged
C29_WritesAppendReadsMove ==
    [][/\ (phase = "write" /\ hist' # hist) =>
              (/\ Len(buf') >= Len(buf)
               /\ SubSeq(buf', 1, Len(buf)) = buf
               /\ pos' = pos)
       /\ (phase = "read" /\ nread' # nread) => buf' = buf]_vars

\* write_string_field after the bytes 02 08 05 with the cursor at 1: the three bytes are
\* still there, seven more follow, and the cursor is at 1
C29_AppendedAfterCursor ==
    /\ phase = "write"
    /\ Len(hist) = 1 /\ hist[1].op = "write_string_field"
    /\ hist[1].args = <<U64(1), <<104, 101, 108, 108, 111>>>>
    /\ buf = <<2, 8, 5, 10, 5, 104, 101, 108, 108, 111>>
    /\ pos = 1

-----------------------------------------------------------------------------
(* The decode loops, one iteration at a time.  hist[1] is the call and the   *)
(* build: the operation, its dispatch, its element type, its end argument,   *)
(* the pointer width of the target and whether the build checks integer     *)
(* overflow (overflow-checks, off in the release profile).  calls[1] is the  *)
(* call frame: its argument is the local `end`.                              *)
(* out and ev are those of the last iteration, nread counts the iterations   *)
(* up to MaxIterations.                                                      *)

MaxIterations == 4

\* the machine on the chosen build
OnBuild == [M EXCEPT !.pw = hist[1].pw, !.oc = hist[1].oc]

\* inputs: nothing; one and two varint fields; a key alone; a Bytes field of one byte, and
\* one of three bytes that are not there; a Fixed32 field; a key of wire type 3; the Bytes
\* key of tag 0 before the length prefixes 2^64 - 11 and 2^32 - 6; packed values behind
\* the length prefixes 1, 2 and 3, the last one ending early
LoopBuffers ==
    {<<>>, <<8, 5>>, <<0, 5, 16, 7>>, <<8>>, <<10, 1, 7>>, <<10, 3, 7>>, <<13, 1, 2, 3, 4>>,
     <<11>>, <<2, 245, 255, 255, 255, 255, 255, 255, 255, 255, 1>>,
     <<2, 250, 255, 255, 255, 15>>, <<1, 7>>, <<2, 5, 7>>, <<3, 5, 128>>}

\* the calls: read_fields with a dispatch that reads nothing or the varint of tag 0, and
\* with no end or an end up to one past the buffer; read_packed and read_s_packed
LoopCalls(b) ==
    {[op |-> "read_fields", t |-> t, T |-> "", end |-> e] :
         t \in {SkipAll, Tag0Varint}, e \in {None} \cup {Some(n) : n \in {0, 2, Len(b) + 1}}}
    \cup {[op |-> "read_packed", t |-> SkipAll, T |-> "u64", end |-> None],
          [op |-> "read_s_packed", t |-> SkipAll, T |-> "i32", end |-> None]}

\* `let end = end.unwrap_or(self.len());` of read_fields
EnterReadFields ==
    /\ phase = "enter"
    /\ hist[1].op = "read_fields"
    /\ calls' = <<Call("read_fields", <<unwrap_or(hist[1].end, Len(buf))>>)>>
    /\ phase' = "loop"
    /\ UNCHANGED <<big_endian, buf, pos, panic, ret, out, ev, hist, nread>>

\* `let end = self.decode_varint() as usize + self.pos; let mut res = vec![];` of
\* read_packed and of read_s_packed
EnterReadPacked ==
    LET Sum(e) == /\ Set(IF Ok(e) THEN Return(e, <<>>) ELSE e)
                  /\ calls' = <<Call(hist[1].op, <<IF Ok(e) THEN e.val ELSE 0>>)>>
                  /\ phase' = IF Ok(e) THEN "loop" ELSE "done"
        Then(d) == Sum(IF Ok(d) THEN usize_sum(d, d.val) ELSE d)
    IN  /\ phase = "enter"
        /\ hist[1].op \in {"read_packed", "read_s_packed"}
        /\ Then(decode_varint(OnBuild))
        /\ UNCHANGED <<big_endian, hist, nread>>

\* the loop is at its condition, which holds
Looping(op) ==
    /\ phase = "loop"
    /\ hist[1].op = op
    /\ panic = ""
    /\ pos < calls[1].args[1]

\* one more iteration has been made
Iterated ==
    /\ nread' = IF nread < MaxIterations THEN nread + 1 ELSE nread
    /\ UNCHANGED <<phase, big_endian, hist, calls>>

\* one iteration of the while loop of read_fields
IterateReadFields ==
    /\ Looping("read_fields")
    /\ Set(read_fields_body([OnBuild EXCEPT !.ev = <<>>, !.out = <<>>], hist[1].t))
    /\ Iterated

\* `let val = self.decode_varint(); res.push(T::from_u64(val));` of read_packed: res is m.val
read_packed_body(m, T) ==
    LET Then(d) == IF Ok(d) THEN Return(d, Append(m.val, d.val)) ELSE d
    IN  Then(read_varint(m, T))

\* `res.push(self.read_s_varint());` of read_s_packed: res is m.val
read_s_packed_body(m, T) ==
    LET Then(d) == IF Ok(d) THEN Return(d, Append(m.val, d.val)) ELSE d
    IN  Then(read_s_varint(m, T))

\* one iteration of the while loop of read_packed
IterateReadPacked ==
    /\ Looping("read_packed")
    /\ Set(read_packed_body(OnBuild, hist[1].T))
    /\ Iterated

\* one iteration of the while loop of read_s_packed
IterateReadSPacked ==
    /\ Looping("read_s_packed")
    /\ Set(read_s_packed_body(OnBuild, hist[1].T))
    /\ Iterated

\* the loop is left: its condition is false, or the iteration panicked
LeaveLoop ==
    /\ phase = "loop"
    /\ panic # "" \/ ~(pos < calls[1].args[1])
    /\ phase' = "done"
    /\ UNCHANGED <<big_endian, buf, pos, panic, ret, out, ev, hist, calls, nread>>

InitLoop ==
    /\ phase = "enter"
    /\ big_endian = FALSE
    /\ \E b \in LoopBuffers :
           /\ \E p \in {0, 1} : p <= Len(b) /\ Start(set_pos(from_input(b, big_endian), p))
           /\ \E c \in LoopCalls(b), pw \in {4, 8}, oc \in BOOLEAN :
                  hist = <<[op |-> c.op, t |-> c.t, T |-> c.T, end |-> c.end, pw |-> pw,
                            oc |-> oc]>>
    /\ calls = <<>>
    /\ nread = 0

NextLoop ==
    \/ EnterReadFields
    \/ EnterReadPacked
    \/ IterateReadFields
    \/ IterateReadPacked
    \/ IterateReadSPacked
    \/ LeaveLoop

\* the iteration at hand leaves every variable as it is: the counter is at its bound and
\* the iteration ends in the state it began in
Repeats ==
    /\ Looping(hist[1].op)
    /\ nread = MaxIterations
    /\ Start(CASE hist[1].op = "read_fields" ->
                      read_fields_body([OnBuild EXCEPT !.ev = <<>>, !.out = <<>>], hist[1].t)
                [] hist[1].op = "read_packed" -> read_packed_body(OnBuild, hist[1].T)
                [] hist[1].op = "read_s_packed" -> read_s_packed_body(OnBuild, hist[1].T))

\* ENABLED <<NextLoop>>_vars, written out: the call has not ended, and its next step
\* changes the state
CanStep == phase # "done" /\ ~Repeats

\* the program runs: a step that can be taken is taken.  This is WF_vars(NextLoop)
\* with CanStep for ENABLED <<NextLoop>>_vars
SpecLoop == InitLoop /\ [][NextLoop]_vars /\ ([]<>~CanStep \/ []<><<NextLoop>>_vars)

-----------------------------------------------------------------------------
(* Claims about the termination of the decode loops (SpecLoop) *)

\* C30: read_fields, read_packed and read_s_packed terminate, by returning or by
\* aborting, on every buffer, start cursor and end offset, because every iteration that
\* does not abort strictly increases the cursor
C30_DecodeLoopsTerminate ==
    /\ <>(phase = "done")
    /\ [][(phase = "loop" /\ nread' # nread /\ panic' = "") => pos' > pos]_vars

\* a release build for a 64-bit target, read_fields with a dispatch that reads nothing on
\* 02 F5 FF FF FF FF FF FF FF FF 01: the fallback skip has added 2^64 - 11 to the cursor
\* 11, the cursor is back at the key, and the loop goes on
C30_CursorBackAtKey ==
    /\ phase = "loop"
    /\ hist[1].op = "read_fields" /\ hist[1].t = SkipAll
    /\ hist[1].pw = 8 /\ ~hist[1].oc
    /\ buf = <<2, 245, 255, 255, 255, 255, 255, 255, 255, 255, 1>>
    /\ nread > 0
    /\ panic = ""
    /\ ev # <<>> /\ ev[Len(ev)].e = "skip" /\ ev[Len(ev)].key = 0
    /\ pos = 0
    /\ pos < calls[1].args[1]

=============================================================================
